---------------------------- MODULE Spec2Model ----------------------------
(***************************************************************************)
(* DataWipe Pro: certificate issuance and verification.                    *)
(*                                                                         *)
(* The model follows utils/certificate_generator.py (CertificateGenerator) *)
(* and the screen handlers that call it (screens/main_screen.py,           *)
(* screens/certificate_screen.py).  Python dictionaries are TLA+ functions *)
(* whose DOMAIN is the set of keys present; text that the code slices,     *)
(* splits or pattern-matches (certificate ids, URLs) is a sequence of      *)
(* one-character strings; other text is a TLA+ string.                     *)
(***************************************************************************)
EXTENDS Integers, Sequences, FiniteSets, TLC

VARIABLES
    private_key,     \* [Gens -> key or "None"]  CertificateGenerator.private_key
    jwk_key,         \* [Gens -> key or "None"]  CertificateGenerator.jwk_key
    main_wipe_data,  \* MainScreen.wipe_data (PyNone until a wipe completes)
    cert_wipe_data,  \* CertificateScreen.wipe_data ({} until set_wipe_data)
    files,           \* [Paths -> file content]  the artifacts of the current issuance
    op,              \* the call that ran last: its arguments and what it returned
                     \* (in DataWipeProGUI: the last handler of the main thread)
    events,          \* number of wipe events delivered to each screen so far
    caller,          \* which caller of the generator this run follows
    ui,              \* MainScreen: drives, selected_device, wipe_thread, its
                     \* widgets, and the drive_timer of the application
    threads,         \* the WipeThread objects created so far
    gui,             \* DataWipeProGUI (src/src/gui.py): its fields and widgets
    tk_after,        \* the callbacks scheduled with root.after(0, ...), in order
    tk_threads,      \* the worker threads DataWipeProGUI has started
    system_info,     \* SystemInfoDetector: cached_info and cache_time
    clock,           \* datetime.now(), in seconds, and the ticks taken so far
    wipe_run,        \* one WipeThread: where run() is, is_running, what it emitted
    progress_screen  \* WipeProgressScreen: progress_value, its timers, its dialog

vars == <<private_key, jwk_key, main_wipe_data, cert_wipe_data, files,
          op, events, caller, ui, threads, gui, tk_after, tk_threads,
          system_info, clock, wipe_run, progress_screen>>

\* the state of the Qt application and of its certificate generators
qt_vars == <<private_key, jwk_key, main_wipe_data, cert_wipe_data, files,
             events, caller, ui, threads>>

\* the state of the tkinter application
tk_vars == <<gui, tk_after, tk_threads>>

\* the state of a SystemInfoDetector and the time of day
sys_vars == <<system_info, clock>>

\* the state of one WipeThread, followed statement by statement
run_vars == <<wipe_run>>

\* the state of a WipeProgressScreen
progress_vars == <<progress_screen>>

\* what the operations of the Qt application never touch
not_qt == <<tk_vars, sys_vars, run_vars, progress_vars>>

\* what the operations of the tkinter application never touch
not_tk == <<qt_vars, sys_vars, run_vars, progress_vars>>

\* what the operations of SystemInfoDetector never touch
not_sys == <<qt_vars, tk_vars, run_vars, progress_vars>>

\* what the statements of WipeThread.run never touch
not_run == <<qt_vars, tk_vars, sys_vars, progress_vars>>

\* what the handlers of WipeProgressScreen never touch
not_progress == <<qt_vars, tk_vars, sys_vars, run_vars>>

-----------------------------------------------------------------------------
(* Bounds of the model *)

\* number of distinct values uuid.uuid4() is drawn from
NumUuids == 2

\* number of wipe events delivered to the screens in one run
MaxEvents == 2

-----------------------------------------------------------------------------
(* Python values *)

PyNone == [py_none |-> TRUE]
IsNone(v) == DOMAIN v = {"py_none"}

EmptyDict == [k \in {} |-> TRUE]

\* dict.get(key, default)
Get(d, k, default) == IF k \in DOMAIN d THEN d[k] ELSE default

\* Python truthiness of a text value: "" is falsy
Truthy(s) == s # ""

-----------------------------------------------------------------------------
(* Text as sequences of characters *)

Digit == {"0", "1", "2", "3", "4", "5", "6", "7", "8", "9"}
UpperLetter == {"A", "B", "C", "D", "E", "F", "G", "H", "I", "J", "K", "L", "M",
                "N", "O", "P", "Q", "R", "S", "T", "U", "V", "W", "X", "Y", "Z"}
DigitChars == <<"0", "1", "2", "3", "4", "5", "6", "7", "8", "9">>
HexChars == <<"0", "1", "2", "3", "4", "5", "6", "7", "8", "9",
              "a", "b", "c", "d", "e", "f">>

\* str.upper() on one character (the characters an id can hold)
UpperChar(c) ==
    CASE c = "a" -> "A" [] c = "b" -> "B" [] c = "c" -> "C"
      [] c = "d" -> "D" [] c = "e" -> "E" [] c = "f" -> "F"
      [] OTHER -> c

\* str.upper()
Upper(s) == [i \in 1..Len(s) |-> UpperChar(s[i])]

\* str(n) for a natural number n
RECURSIVE IntToStr(_)
IntToStr(n) ==
    IF n < 10 THEN <<DigitChars[n + 1]>>
    ELSE IntToStr(n \div 10) \o <<DigitChars[(n % 10) + 1]>>

\* s.split('-')[-1]: the text after the last '-' (all of s when it has none)
RECURSIVE LastDashSegment(_)
LastDashSegment(s) ==
    IF Len(s) = 0 THEN <<>>
    ELSE IF s[Len(s)] = "-" THEN <<>>
    ELSE LastDashSegment(SubSeq(s, 1, Len(s) - 1)) \o <<s[Len(s)]>>

\* Python's `a in b` for two texts
IsSubstring(a, b) ==
    \E i \in 0..(Len(b) - Len(a)) : SubSeq(b, i + 1, i + Len(a)) = a

\* b.endswith(a)
EndsWith(b, a) ==
    /\ Len(a) <= Len(b)
    /\ SubSeq(b, Len(b) - Len(a) + 1, Len(b)) = a

-----------------------------------------------------------------------------
(* Inputs drawn from the environment *)

\* datetime.now().strftime('%Y%m%d'): eight digits (years 1000..9999)
TodayYmd == 20261105
Today == IntToStr(TodayYmd)

\* int(time.time()) and datetime.now(): the clock reading of the run
Now == 1793875200

\* str(uuid.uuid4()): 36 characters, lower-case hex digits in five groups
UuidChar(u, i) ==
    IF i \in {9, 14, 19, 24} THEN "-"
    ELSE IF i = 15 THEN "4"
    ELSE HexChars[((u * 11 + i * 7) % 16) + 1]
Uuid4(u) == [i \in 1..36 |-> UuidChar(u, i)]
Uuids == {Uuid4(u) : u \in 1..NumUuids}

-----------------------------------------------------------------------------
(* Text constants of the code, as character sequences *)

DwpPrefix == <<"D", "W", "P", "-">>
VerifyUrlPrefix ==
    <<"h", "t", "t", "p", "s", ":", "/", "/", "v", "e", "r", "i", "f", "y",
    ".", "d", "a", "t", "a", "w", "i", "p", "e", ".", "p", "r", "o", "/">>
MethodNist ==
    <<"N", "I", "S", "T", " ", "S", "P", " ", "8", "0", "0", "-", "8", "8",
    " ", "R", "e", "v", ".", " ", "1">>
MethodSevenPass ==
    <<"N", "I", "S", "T", " ", "S", "P", " ", "8", "0", "0", "-", "8", "8",
    " ", "(", "7", "-", "p", "a", "s", "s", ")", " ", "-", " ", "R", "e",
    "c", "o", "m", "m", "e", "n", "d", "e", "d">>
MethodThreePass ==
    <<"D", "o", "D", " ", "5", "2", "2", "0", ".", "2", "2", "-", "M", " ",
    "(", "3", "-", "p", "a", "s", "s", ")", " ", "-", " ", "S", "t", "a",
    "n", "d", "a", "r", "d">>
MethodSinglePass ==
    <<"S", "i", "n", "g", "l", "e", " ", "P", "a", "s", "s", " ", "(", "Z",
    "e", "r", "o", "s", ")", " ", "-", " ", "Q", "u", "i", "c", "k">>
MethodUnknown == <<"U", "n", "k", "n", "o", "w", "n">>
SevenPassMark == <<"7", "-", "p", "a", "s", "s">>
ThreePassMark == <<"3", "-", "p", "a", "s", "s">>
SinglePassMark == <<"S", "i", "n", "g", "l", "e", " ", "P", "a", "s", "s">>

-----------------------------------------------------------------------------
(* CertificateGenerator._format_size                                       *)
(* A byte count is a sequence of base-1024 limbs, least significant first, *)
(* so that counts beyond 2^31 can be handled: <<0, 0, 0, 500>> is          *)
(* 500 * 1024^3.  Dividing by 1024.0 is exact in binary floating point     *)
(* for counts below 2^53, and '%.1f' rounds the exact value half-to-even.  *)

Limb(l, i) == IF i \in 1..Len(l) THEN l[i] ELSE 0

SizeIsZero(l) == \A i \in 1..Len(l) : l[i] = 0

SizeUnits == <<"B", "KB", "MB", "GB", "TB">>

\* the value after k divisions is below 1024.0
BelowKilo(l, k) == \A i \in 1..Len(l) : i > k + 1 => l[i] = 0

\* integer part of the value after k divisions (limbs k+1 and above)
RECURSIVE IntPartFrom(_, _)
IntPartFrom(l, i) ==
    IF i > Len(l) THEN 0 ELSE l[i] + 1024 * IntPartFrom(l, i + 1)

\* ten times the fraction (limbs 1..k): <<integer part, fraction limbs>>
RECURSIVE TimesTen(_, _, _, _, _)
TimesTen(l, i, k, carry, digits) ==
    IF i > k THEN <<carry, digits>>
    ELSE LET v == 10 * Limb(l, i) + carry
         IN  TimesTen(l, i + 1, k, v \div 1024, Append(digits, v % 1024))

\* a formatter that cuts the digits after the first decimal instead of rounding
RoundedTenths_Truncated(l, k) ==
    IntPartFrom(l, k + 1) * 10 + TimesTen(l, 1, k, 0, <<>>)[1]

\* the value after k divisions, in tenths, rounded half-to-even
RoundedTenths(l, k) ==
    LET tt     == TimesTen(l, 1, k, 0, <<>>)
        floorT == IntPartFrom(l, k + 1) * 10 + tt[1]
        top    == IF k >= 1 THEN tt[2][k] ELSE 0
        rest0  == \A i \in 1..(k - 1) : tt[2][i] = 0
        up     == \/ top > 512
                  \/ top = 512 /\ ~rest0
                  \/ top = 512 /\ rest0 /\ floorT % 2 = 1
    IN  IF up THEN floorT + 1 ELSE floorT

OneDecimal(tenths, unit) ==
    ToString(tenths \div 10) \o "." \o ToString(tenths % 10) \o " " \o unit

RECURSIVE FormatLoop(_, _)
FormatLoop(l, k) ==
    IF k >= Len(SizeUnits) THEN OneDecimal(RoundedTenths(l, k), "PB")
    ELSE IF BelowKilo(l, k) THEN OneDecimal(RoundedTenths(l, k), SizeUnits[k + 1])
    ELSE FormatLoop(l, k + 1)

_format_size(size_bytes) ==
    IF SizeIsZero(size_bytes) THEN "Unknown" ELSE FormatLoop(size_bytes, 0)

-----------------------------------------------------------------------------
(* CertificateGenerator._get_pass_count *)

_get_pass_count(method) ==
    IF IsSubstring(SevenPassMark, method) THEN 7
    ELSE IF IsSubstring(ThreePassMark, method) THEN 3
    ELSE IF IsSubstring(SinglePassMark, method) THEN 1
    ELSE 1

-----------------------------------------------------------------------------
(* Wipe-result records handed to the certificate code *)

\* a drive descriptor as DriveDetector.get_storage_devices builds it
Drive ==
    [name |-> "CT500BX500SSD1", model |-> "CT500BX500SSD1",
     device_path |-> "/dev/sda", size |-> <<0, 24, 780, 465>>,
     type |-> "SSD", interface |-> "SATA", serial |-> "2237E6A1B2C3"]

\* time.strftime('%Y-%m-%d %H:%M:%S') and datetime.isoformat() of a clock
\* reading: the text is determined by the reading
LocalTime(epoch) == "local:" \o ToString(epoch)
IsoUtc(epoch) == "utc:" \o ToString(epoch)

\* the record WipeThread.run emits with wipe_completed
WipeThreadResult(device_info, epoch) ==
    [device          |-> device_info,
     completion_time |-> LocalTime(epoch),
     method          |-> MethodNist,
     passes          |-> 3,
     verification    |-> "PASSED",
     certificate_id  |-> DwpPrefix \o IntToStr(epoch)]

\* the record WipeProgressScreen.complete_wipe hands to parent.wipe_completed
ProgressResult(epoch) ==
    [status                |-> "completed",
     completion_time       |-> LocalTime(epoch),
     total_duration        |-> "18.5 minutes",
     verification_passed   |-> TRUE,
     certificate_generated |-> TRUE]

\* records of a wipe that did not complete (status of the WipeResult enum)
FailedResult ==
    [device |-> Drive, method |-> MethodThreePass, status |-> "failed",
     verification_passed |-> FALSE]
CancelledResult ==
    [device |-> Drive, method |-> MethodSevenPass, status |-> "cancelled",
     verification_passed |-> FALSE]

\* the wipe_data values a caller passes to the generator
WipeDatas ==
    {WipeThreadResult(Drive, Now), ProgressResult(Now), FailedResult,
     CancelledResult, EmptyDict}

\* os.getenv('COMPUTERNAME') or os.getenv('HOSTNAME') or platform.node() or 'WS-001'
WorkstationId == "WS-001"

-----------------------------------------------------------------------------
(* CertificateGenerator._prepare_certificate_data *)

\* a builder that leaves out the optional device fields the descriptor lacks
DeviceBlock_OmitsAbsent(device) ==
    LET model == Get(device, "model", "")
        full  == [path            |-> Get(device, "device_path", "Unknown"),
                  model           |-> IF Truthy(model) THEN model
                                      ELSE Get(device, "name", "Unknown"),
                  serial          |-> Get(device, "serial", "Unknown"),
                  capacity        |-> _format_size(Get(device, "size", <<0>>)),
                  interface       |-> Get(device, "interface", "Unknown"),
                  type            |-> Get(device, "type", "Unknown"),
                  manufacturer    |-> Get(device, "manufacturer", "Unknown"),
                  firmware        |-> Get(device, "firmware", "Unknown"),
                  smart_health    |-> Get(device, "smart_health", "GOOD"),
                  partition_table |-> Get(device, "partition_table", "GPT")]
        kept  == {"path", "model", "serial", "capacity", "interface", "type"}
                     \cup DOMAIN device
    IN  [k \in DOMAIN full \cap kept |-> full[k]]

\* lines 111-122: the 'device' block of the document
DeviceBlock(device) ==
    LET model == Get(device, "model", "")
    IN  [path            |-> Get(device, "device_path", "Unknown"),
         model           |-> IF Truthy(model) THEN model
                             ELSE Get(device, "name", "Unknown"),
         serial          |-> Get(device, "serial", "Unknown"),
         capacity        |-> _format_size(Get(device, "size", <<0>>)),
         interface       |-> Get(device, "interface", "Unknown"),
         type            |-> Get(device, "type", "Unknown"),
         manufacturer    |-> Get(device, "manufacturer", "Unknown"),
         firmware        |-> Get(device, "firmware",
                                 Get(device, "fw_version", "Unknown")),
         smart_health    |-> Get(device, "smart_health", "GOOD"),
         partition_table |-> Get(device, "partition_table", "GPT")]

_prepare_certificate_data(wipe_data, cert_id, now) ==
    LET device == Get(wipe_data, "device", EmptyDict)
    IN
    [certificate_id |-> cert_id,
     version        |-> "2.0.0",
     generated_at   |-> IsoUtc(now),
     problem_statement |->
        [id           |-> Get(wipe_data, "problem_id", "25070"),
         title        |-> Get(wipe_data, "problem_title",
                              "Secure Data Wiping for Trustworthy IT Asset Recycling"),
         organization |-> Get(wipe_data, "organization", "Ministry of Mines"),
         department   |-> Get(wipe_data, "department", "JNARDDC"),
         theme        |-> Get(wipe_data, "theme", "Miscellaneous")],
     device |-> DeviceBlock(device),
     wipe_details |->
        [method        |-> Get(wipe_data, "method", MethodUnknown),
         standard      |-> "NIST SP 800-88 Rev. 1",
         passes        |-> _get_pass_count(Get(wipe_data, "method", <<>>)),
         include_hpa   |-> Get(wipe_data, "include_hpa", FALSE),
         verification  |-> Get(wipe_data, "run_verification", FALSE),
         verify_method |-> Get(wipe_data, "verify_method", "Pattern Readback + SMART")],
     execution |->
        [start_time      |-> Get(wipe_data, "start_time", IsoUtc(now)),
         completion_time |-> Get(wipe_data, "completion_time", IsoUtc(now)),
         duration        |-> Get(wipe_data, "total_duration", "18.5 minutes"),
         operator        |-> Get(wipe_data, "operator_name", "Unknown"),
         operator_id     |-> Get(wipe_data, "operator_id", "DWP-DEMO"),
         workstation_id  |-> Get(wipe_data, "workstation_id", WorkstationId),
         status          |-> Get(wipe_data, "status", "completed")],
     verification |->
        [passed            |-> Get(wipe_data, "verification_passed", TRUE),
         method            |-> "Forensic Pattern Analysis",
         confidence        |-> "99.9%",
         recovery_attempts |-> 0,
         log_sha256        |-> Get(wipe_data, "log_sha256", "demo-log-hash")],
     compliance |->
        [standards           |-> <<"NIST SP 800-88", "DoD 5220.22-M", "ISO 27001">>,
         government_approved |-> TRUE,
         quantum_resistant   |-> TRUE],
     eco_impact |->
        [co2_saved        |-> "50 kg",
         trees_equivalent |-> "2 trees",
         carbon_offset    |-> "200 g"],
     facility |->
        [organization |-> Get(wipe_data, "organization", "Demo Organization"),
         site         |-> Get(wipe_data, "site", "Main Lab"),
         location     |-> Get(wipe_data, "location", "Earth")],
     qr |->
        [verification_url |-> VerifyUrlPrefix \o cert_id,
         short_code       |-> LastDashSegment(cert_id)]]

-----------------------------------------------------------------------------
(* Key material: CertificateGenerator.__init__ / _setup_crypto *)

\* the CertificateGenerator instances: MainScreen.certificate_generator and
\* CertificateScreen.cert_generator
Gens == {"main", "cert"}

\* Each construction draws fresh keys: the RSA key of the cryptography
\* library and, independently, the JWK used for signing.
FreshRsaKey(g) == "rsa-" \o g
FreshJwk(g) == "jwk-" \o g

\* a constructor whose except branch does not reset private_key
_setup_crypto_KeepsRsaKey(g, rsa_ok, jwk_ok) ==
    IF rsa_ok /\ jwk_ok
    THEN [private_key |-> FreshRsaKey(g), jwk_key |-> FreshJwk(g)]
    ELSE [private_key |-> IF rsa_ok THEN FreshRsaKey(g) ELSE "None",
          jwk_key |-> "None"]

\* rsa_ok / jwk_ok: whether rsa.generate_private_key / jwk.JWK.generate
\* returned (TRUE) or raised (FALSE, so the except branch ran)
_setup_crypto(g, rsa_ok, jwk_ok) ==
    IF rsa_ok /\ jwk_ok
    THEN [private_key |-> FreshRsaKey(g), jwk_key |-> FreshJwk(g)]
    ELSE [private_key |-> "None", jwk_key |-> "None"]

-----------------------------------------------------------------------------
(* jwcrypto, symbolically: a signature is the triple it was computed from,  *)
(* and it verifies under a public key exactly when that key is the public  *)
(* half of the signing key and the signed header and payload are the       *)
(* token's.                                                                *)

\* json.dumps(cert_data): the serialized document
JsonDumps(doc) == [serialized |-> doc]

\* the protected header built in _generate_json_certificate
ProtectedHeader(iat) ==
    [alg |-> "RS256", typ |-> "JWT", iss |-> "DataWipe Pro v2.0.0", iat |-> iat]

RsaSign(key, header, payload) ==
    [signer |-> key, header |-> header, payload |-> payload]

\* jws.JWS(payload); add_signature(key, alg, protected); serialize()
JwsSerialize(key, header, payload) ==
    [form |-> "jws", payload |-> payload, protected |-> header,
     signature |-> RsaSign(key, header, payload)]

\* a signature field that is plain text, not a serialized token
SigText(s) == [form |-> "text", text |-> s]

\* jwk_key.export_public(): the public half as JSON text
ExportPublic(key) == [form |-> "jwk", kty |-> "RSA", n |-> key]
KeyText(s) == [form |-> "text", text |-> s]

\* algorithms jwcrypto's JWS accepts by default for an RSA key
JwsAllowedAlgs == {"RS256", "RS384", "RS512", "PS256", "PS384", "PS512"}

\* jwk.JWK(**json.loads(text)) returns
JwkParses(pk) == pk.form = "jwk"

\* token.deserialize(text) returns
JwsDeserializes(sig) == sig.form = "jws"

\* token.verify(public_key) returns (does not raise InvalidJWSSignature)
JwsVerifies(token, pk) ==
    /\ token.protected.alg \in JwsAllowedAlgs
    /\ token.signature.signer = pk.n
    /\ token.signature.header = token.protected
    /\ token.signature.payload = token.payload

-----------------------------------------------------------------------------
(* The signed envelope: CertificateGenerator._generate_json_certificate    *)
(* (lines 347-370) and generate_json_certificate (lines 462-485) build the *)
(* same dictionary.                                                        *)

DemoSentinel == "DEMO_MODE_NO_SIGNATURE"

\* a signer that exports the public half of a key other than the one it
\* signed with
SignedEnvelope_OtherKeyExported(key, cert_data, now) ==
    [certificate |-> cert_data,
     signature   |-> JwsSerialize(key, ProtectedHeader(now), JsonDumps(cert_data)),
     public_key  |-> ExportPublic("rsa-" \o key),
     algorithm   |-> "RS256",
     signed_at   |-> IsoUtc(now)]

SignedEnvelope(key, cert_data, now) ==
    [certificate |-> cert_data,
     signature   |-> JwsSerialize(key, ProtectedHeader(now), JsonDumps(cert_data)),
     public_key  |-> ExportPublic(key),
     algorithm   |-> "RS256",
     signed_at   |-> IsoUtc(now)]

\* a signer whose sentinel is a text the verifier does not know
UnsignedEnvelope_OtherSentinel(cert_data, now) ==
    [certificate |-> cert_data,
     signature   |-> SigText("UNSIGNED"),
     signed_at   |-> IsoUtc(now)]

UnsignedEnvelope(cert_data, now) ==
    [certificate |-> cert_data,
     signature   |-> SigText(DemoSentinel),
     signed_at   |-> IsoUtc(now)]

\* signed_data as the code builds it: `if self.jwk_key:` ... `else:` ...
BuildEnvelope(key, cert_data, now) ==
    IF key # "None" THEN SignedEnvelope(key, cert_data, now)
    ELSE UnsignedEnvelope(cert_data, now)

-----------------------------------------------------------------------------
(* Files *)

NoFile == [kind |-> "none"]

\* a file holding JSON text; value is what json.load returns for it.  by, gen
\* and event record which method of which generator wrote it, for which
\* wipe event ("edit" / "none" / 0 for text that no generator wrote).
JsonFile(top, value, by, gen, event) ==
    [kind |-> "json", top |-> top, value |-> value, by |-> by, gen |-> gen,
     event |-> event]

JsonPaths == {"main.json", "cert.json", "out.json"}
PdfPaths == {"main.pdf", "cert.pdf", "out.pdf"}
QrPaths == {"out_qr.png"}
Paths == JsonPaths \cup PdfPaths \cup QrPaths

-----------------------------------------------------------------------------
(* CertificateGenerator.verify_certificate *)

\* a Python call either returns a value or raises
Return(v, printed) == [outcome |-> "return", value |-> v, printed |-> printed]
Raise(printed) == [outcome |-> "raise", value |-> FALSE, printed |-> printed]

\* lines 435-439: the inner try block; each library call returns or raises
VerifyJwtBody(cert_data) ==
    IF ~JwkParses(cert_data["public_key"])
    THEN Raise("jwk.JWK")
    ELSE IF ~JwsDeserializes(cert_data["signature"])
    THEN Raise("InvalidJWSObject")
    ELSE IF ~JwsVerifies(cert_data["signature"], cert_data["public_key"])
    THEN Raise("InvalidJWSSignature")
    ELSE Return(TRUE, "")

\* lines 440-442: the inner except
CatchSignature(r) ==
    IF r.outcome = "raise"
    THEN Return(FALSE, "Signature verification failed")
    ELSE r

VerifyJwt(cert_data) == CatchSignature(VerifyJwtBody(cert_data))

\* lines 425-444: the body of the outer try block
VerifyBody(key, file) ==
    IF file.kind # "json"
    THEN Raise("open/json.load")                    \* no file, or not JSON
    ELSE IF file.top \in {"number", "null"}
    THEN Raise("TypeError")                         \* 'signature' not in 5
    ELSE IF file.top \in {"list", "string"}
    THEN \* 'signature' not in x is True for a list or text without it
         Return(TRUE, "Certificate is in demo mode (no signature)")
    ELSE LET cert_data == file.value IN
         IF \/ "signature" \notin DOMAIN cert_data
            \/ cert_data["signature"] = SigText(DemoSentinel)
         THEN Return(TRUE, "Certificate is in demo mode (no signature)")
         ELSE IF key # "None" /\ "public_key" \in DOMAIN cert_data
         THEN VerifyJwt(cert_data)
         ELSE Return(FALSE, "")

\* a verifier without the outer except
CatchAll_Reraise(r) == r

\* lines 446-448: the outer except turns every exception into False
CatchAll(r) ==
    IF r.outcome = "raise"
    THEN Return(FALSE, "Certificate verification failed")
    ELSE r

verify_certificate(key, file) == CatchAll(VerifyBody(key, file))

-----------------------------------------------------------------------------
(* CertificateGenerator._generate_pdf_certificate: the text the PDF shows  *)

\* str.upper() on the status labels
UpperStatus(s) ==
    CASE s = "completed" -> "COMPLETED"
      [] s = "failed"    -> "FAILED"
      [] s = "cancelled" -> "CANCELLED"
      [] OTHER           -> s

PdfText(cert_data) ==
    [certificate_id |-> cert_data.certificate_id,                \* line 193
     generated      |-> cert_data.generated_at,
     problem_id     |-> cert_data.problem_statement.id,          \* line 206
     model          |-> cert_data.device.model,                  \* lines 223-227
     serial         |-> cert_data.device.serial,
     capacity       |-> cert_data.device.capacity,
     interface      |-> cert_data.device.interface,
     type           |-> cert_data.device.type,
     method         |-> cert_data.wipe_details.standard,
     passes         |-> ToString(cert_data.wipe_details.passes) \o "-Pass",
     status         |-> UpperStatus(cert_data.execution.status) \o " OK",
     verified       |-> IF cert_data.verification.passed THEN "YES OK" ELSE "NO",
     operator       |-> cert_data.execution.operator,
     qr_payload     |-> VerifyUrlPrefix \o cert_data.certificate_id,   \* line 250
     url_line       |-> cert_data.certificate_id,                \* line 265
     caption_id     |-> cert_data.certificate_id,                \* line 281
     caption_url    |-> cert_data.qr.verification_url,
     banner         |-> "VERIFICATION: PASSED | SIGNED & BLOCKCHAIN-LOGGED"]  \* line 315

PdfFile(cert_data, by, event) ==
    [kind |-> "pdf", text |-> PdfText(cert_data), by |-> by, event |-> event]

\* CertificateGenerator._generate_qr_code: the PNG encodes the URL
QrFile(cert_id, by, event) ==
    [kind |-> "png", payload |-> VerifyUrlPrefix \o cert_id, by |-> by,
     event |-> event]

-----------------------------------------------------------------------------
(* Certificate ids *)

\* f"DWP-{datetime.now().strftime('%Y%m%d')}-{str(uuid.uuid4())[:8].upper()}"
NewCertId(today, uuid) ==
    DwpPrefix \o today \o <<"-">> \o Upper(SubSeq(uuid, 1, 8))

\* f"DWP-{int(time.time())}"
EpochCertId(epoch) == DwpPrefix \o IntToStr(epoch)

-----------------------------------------------------------------------------
(* State *)

(* The generator has three callers that share neither a wipe record nor a  *)
(* file: code that calls generate_certificate directly ("api"), MainScreen *)
(* ("main") and CertificateScreen ("cert").  The command line of           *)
(* src/main.py ("cli") is a process of its own.  A run follows one of them. *)
Callers == {"api", "main", "cert", "cli", "gui"}

NoOp == [name |-> "init"]

TypeOK ==
    /\ private_key \in [Gens -> {FreshRsaKey(g) : g \in Gens} \cup {"None"}]
    /\ jwk_key \in [Gens -> {FreshJwk(g) : g \in Gens} \cup {"None"}]
    /\ DOMAIN files = Paths
    /\ \A p \in Paths : files[p].kind \in {"none", "json", "pdf", "png"}
    /\ events \in [{"main", "cert"} -> 0..MaxEvents]
    /\ caller \in Callers

\* MainScreen.__init__ (lines 122-134) and the widgets as setup_ui leaves
\* them; the application has no drive_timer until start_drive_detection
MainScreenInit ==
    [drives              |-> <<>>,
     selected_device     |-> PyNone,
     wipe_thread         |-> 0,          \* 0: None, i: threads[i]
     combo_index         |-> 0,
     wipe_button_enabled |-> FALSE,      \* line 379
     device_combo_enabled |-> TRUE,
     wipe_card_visible   |-> TRUE,
     drive_timer         |-> "absent",
     current_screen      |-> "main"]     \* src/main.py line 195

-----------------------------------------------------------------------------
(* DataWipeProGUI (src/src/gui.py): the tkinter application.  Its handlers *)
(* and the callbacks scheduled with root.after run one at a time on the    *)
(* main thread; refresh_worker and perform_wipe run on threads of their    *)
(* own and reach the widgets only through root.after.                      *)

\* device descriptors as src/src/drive_detector.py get_storage_devices
\* returns them (the fields the GUI reads)
GuiDeviceA ==
    [name |-> "Samsung SSD 860", device_path |-> "/dev/sda",
     size |-> "465.8G", serial |-> "S3Z9NB0K123456"]
GuiDeviceB ==
    [name |-> "WDC WD10EZEX", device_path |-> "/dev/sdb",
     size |-> "931.5G", serial |-> "WD-WCC6Y0"]

\* what drive_detector.get_storage_devices returns when it does not raise
GuiDeviceLists == {<<GuiDeviceA, GuiDeviceB>>}

\* the text of cert_device_label before any certificate (line 362)
NoCertificateText == <<"DEVICE", "--">>

\* DataWipeProGUI.__init__ up to create_modern_ui (lines 61-90)
DataWipeProGUIInit ==
    [devices           |-> <<>>,
     selected_device   |-> PyNone,
     is_wiping         |-> FALSE,
     is_refreshing     |-> FALSE,
     refresh_thread    |-> 0,            \* 0: None, i: tk_threads[i]
     device_dropdown   |-> "readonly",   \* line 234
     dropdown_values   |-> <<>>,
     refresh_btn       |-> "normal",
     wipe_button       |-> "disabled",   \* line 274
     progress_card     |-> FALSE,        \* shown in the grid or not
     progress_var      |-> 0,
     certificate_card  |-> FALSE,
     cert_device_label |-> NoCertificateText,
     dialog            |-> "none"]       \* the messagebox that is open

\* `if self.selected_device` is false for None
HasDevice(g) == ~IsNone(g.selected_device)

\* _update_wipe_button_state (lines 614-642)
_update_wipe_button_state(g) ==
    [g EXCEPT !.wipe_button =
        IF HasDevice(g) /\ ~g.is_wiping THEN "normal" ELSE "disabled"]

\* a refresh_devices_threaded that never ignores a request
RefreshIgnored_Never(g, alive) == FALSE

\* refresh_devices_threaded, lines 473-479: the request is ignored; alive is
\* the set of threads for which is_alive() holds
RefreshIgnored(g, alive) ==
    \/ g.is_refreshing
    \/ g.refresh_thread # 0 /\ g.refresh_thread \in alive

\* refresh_devices_threaded (lines 472-514) when the request is not ignored;
\* t is the position of the thread it starts
refresh_devices_threaded(g, t) ==
    [_update_wipe_button_state(
         [g EXCEPT !.is_refreshing = TRUE,
                   !.refresh_btn = "disabled",
                   !.selected_device = PyNone])
     EXCEPT !.refresh_thread = t]

\* _update_devices_ui (lines 516-554)
_update_devices_ui(g, devices) ==
    _update_wipe_button_state(
        [g EXCEPT !.devices = devices,
                  !.dropdown_values = devices,
                  !.selected_device = PyNone])

\* _handle_refresh_error (lines 556-571): self.devices is left as it was
_handle_refresh_error(g) ==
    _update_wipe_button_state(
        [g EXCEPT !.dropdown_values = <<>>,
                  !.selected_device = PyNone])

\* _reset_refresh_state (lines 573-585)
_reset_refresh_state(g) ==
    [g EXCEPT !.is_refreshing = FALSE,
              !.refresh_btn = "normal",
              !.refresh_thread = 0]

\* on_device_selected (lines 587-612) for the entry at position index of the
\* dropdown (counted from 1)
on_device_selected(g, index) ==
    _update_wipe_button_state(
        [g EXCEPT !.selected_device =
            IF 1 <= index /\ index <= Len(g.devices)
            THEN g.devices[index] ELSE PyNone])

\* start_wipe (lines 644-673) after the user has answered Yes
start_wipe_confirmed(g) ==
    [_update_wipe_button_state([g EXCEPT !.is_wiping = TRUE])
     EXCEPT !.device_dropdown = "disabled",
            !.refresh_btn = "disabled",
            !.progress_card = TRUE,
            !.dialog = "none"]

\* update_progress (lines 711-718)
update_progress(g, progress) == [g EXCEPT !.progress_var = progress]

\* show_completion_state (lines 720-789): with no selected device the
\* subscript at line 745 raises after the cards have been changed, and
\* tkinter reports the exception and goes on
show_completion_state(g, cert_data) ==
    [g EXCEPT !.progress_card = FALSE,
              !.certificate_card = TRUE,
              !.cert_device_label =
                  IF HasDevice(g)
                  THEN <<"DEVICE", g.selected_device.name,
                         Get(cert_data, "certificate_id", "N/A")>>
                  ELSE @]

\* show_error_dialog (lines 791-792)
show_error_dialog(g) == [g EXCEPT !.dialog = "error"]

\* reset_ui (lines 803-828)
reset_ui(g) ==
    _update_wipe_button_state(
        [g EXCEPT !.device_dropdown = "readonly",
                  !.refresh_btn = "normal",
                  !.progress_card = FALSE,
                  !.progress_var = 0,
                  !.certificate_card = FALSE])

\* the callback at the head of tk_after, run on the main thread
RunCallback(g, cb) ==
    CASE cb.fn = "_update_devices_ui"    -> _update_devices_ui(g, cb.arg)
      [] cb.fn = "_handle_refresh_error" -> _handle_refresh_error(g)
      [] cb.fn = "_reset_refresh_state"  -> _reset_refresh_state(g)
      [] cb.fn = "update_progress"       -> update_progress(g, cb.arg)
      [] cb.fn = "show_completion_state" -> show_completion_state(g, cb.arg)
      [] cb.fn = "show_error_dialog"     -> show_error_dialog(g)
      [] cb.fn = "reset_ui"              -> reset_ui(g)

\* root.after(0, fn) with the argument the lambda has captured
After(fn, arg) == [fn |-> fn, arg |-> arg]

\* the thread started at line 512, running refresh_worker
RefreshThread == [kind |-> "refresh", pc |-> "detect"]

\* the thread started at line 670, running perform_wipe
WipeWorker == [kind |-> "wipe", pc |-> "wipe_device", success |-> FALSE]

\* DataWipeProGUI() (lines 22-93): the fields, then the initial refresh
DataWipeProGUINew == refresh_devices_threaded(DataWipeProGUIInit, 1)

-----------------------------------------------------------------------------
(* SystemInfoDetector.get_system_info (src/utils/system_info.py) *)

\* the cache lifetime of line 26
CacheSeconds == 30

\* timedelta keeps days and seconds apart
SecondsPerDay == 86400

\* timedelta.seconds: the seconds left over after the whole days
TimedeltaSeconds(delta) == delta % SecondsPerDay

\* SystemInfoDetector.__init__ (lines 17-20)
SystemInfoDetectorInit == [cached_info |-> PyNone, cache_time |-> PyNone]

\* the record built at lines 30-41 when detection runs at time now
DetectedInfo(now) == [timestamp |-> now]

\* the condition of lines 25-26 under which the cached record is returned
CacheHit(d, force_refresh, now) ==
    /\ ~force_refresh
    /\ ~IsNone(d.cached_info)
    /\ ~IsNone(d.cache_time)
    /\ TimedeltaSeconds(now - d.cache_time.at) < CacheSeconds

\* get_system_info (lines 22-44): what it returns and the detector after it
get_system_info(d, force_refresh, now) ==
    IF CacheHit(d, force_refresh, now)
    THEN [returned |-> d.cached_info, detected |-> FALSE, detector |-> d]
    ELSE [returned |-> DetectedInfo(now), detected |-> TRUE,
          detector |-> [cached_info |-> DetectedInfo(now),
                        cache_time |-> [at |-> now]]]

-----------------------------------------------------------------------------
(* WipeThread.run (src/screens/main_screen.py lines 30-116), statement by  *)
(* statement.  The log lines it emits are left out.                        *)

\* len(init_steps), line 38
NumInitSteps == 5

\* `for pct in [0, 1, 2]`, line 51
EarlyPcts == <<0, 1, 2>>

\* len(phases), line 70
NumPhases == 8

\* `for pct in [98, 99, 100]`, line 99
FinalPcts == <<98, 99, 100>>

\* WipeThread.__init__ (lines 25-28) and start(): run() is at its first
\* statement; progress holds the values of progress_updated emitted so far,
\* completed counts the wipe_completed signals, observed tells whether a
\* check has read is_running as False
WipeThreadInit ==
    [stage |-> "init", idx |-> 1, is_running |-> TRUE,
     progress |-> <<>>, completed |-> 0, observed |-> FALSE]

\* a check that reads is_running as False and carries on all the same
ReturnsIfStopped_CarriesOn(w, next) ==
    IF ~w.is_running THEN [next EXCEPT !.observed = TRUE] ELSE next

\* `if not self.is_running: return`, then the statements leading to next
ReturnsIfStopped(w, next) ==
    IF ~w.is_running
    THEN [w EXCEPT !.stage = "returned", !.observed = TRUE]
    ELSE next

\* where run() is after the statement at stage/idx has run, as a record
At(w, stage, idx) == [w EXCEPT !.stage = stage, !.idx = idx]

\* one statement of run(); more tells whether the loop the statement
\* belongs to goes round again (elapsed < window_ms, or sub-iterations left)
run_step(w, more) ==
    CASE w.stage = "init" ->          \* lines 45-49
            ReturnsIfStopped(w,
                IF w.idx < NumInitSteps THEN At(w, "init", w.idx + 1)
                ELSE At(w, "early_if", 1))
      [] w.stage = "early_if" ->      \* lines 51-56
            ReturnsIfStopped(w, At(w, "early_while", w.idx))
      [] w.stage = "early_while" ->   \* line 57: elapsed < window_ms and is_running
            IF more /\ w.is_running THEN w
            ELSE [At(w, "early_emit", w.idx) EXCEPT
                     !.observed = @ \/ (more /\ ~w.is_running)]
      [] w.stage = "early_emit" ->    \* line 67
            [(IF w.idx < Len(EarlyPcts) THEN At(w, "early_if", w.idx + 1)
              ELSE At(w, "phase_if", 1))
             EXCEPT !.progress = Append(@, EarlyPcts[w.idx])]
      [] w.stage = "phase_if" ->      \* lines 80-85
            ReturnsIfStopped(w, At(w, "phase_sub", w.idx))
      [] w.stage = "phase_sub" ->     \* lines 86-96: one sub-iteration
            ReturnsIfStopped(w,
                IF more THEN w
                ELSE IF w.idx < NumPhases THEN At(w, "phase_if", w.idx + 1)
                ELSE At(w, "final_if", 1))
      [] w.stage = "final_if" ->      \* lines 99-101
            ReturnsIfStopped(w, At(w, "final_emit", w.idx))
      [] w.stage = "final_emit" ->    \* lines 102-104
            [(IF w.idx < Len(FinalPcts) THEN At(w, "final_if", w.idx + 1)
              ELSE At(w, "complete", 1))
             EXCEPT !.progress = Append(@, FinalPcts[w.idx])]
      [] w.stage = "complete" ->      \* lines 107-116
            [At(w, "returned", 1) EXCEPT !.completed = @ + 1]

-----------------------------------------------------------------------------
(* WipeProgressScreen (src/screens/wipe_progress_screen.py) *)

\* `if self.progress_value >= 100`, line 295
CompleteAt == 100

\* WipeProgressScreen.__init__ (lines 17-27): the timer exists and is not
\* running; shown tells whether this screen is the one on display,
\* single_shot whether the QTimer.singleShot of line 333 is pending,
\* delivered counts the calls of parent.wipe_completed
WipeProgressScreenInit ==
    [progress_value |-> 0,
     progress_timer |-> "stopped",
     single_shot    |-> FALSE,
     dialog         |-> FALSE,
     shown          |-> FALSE,
     started        |-> FALSE,
     cancelled      |-> FALSE,
     delivered      |-> 0]

\* start_mock_wipe (lines 216-243)
start_mock_wipe(s) ==
    [s EXCEPT !.progress_value = 0, !.progress_timer = "active",
              !.shown = TRUE, !.started = TRUE]

\* complete_wipe (lines 298-333)
complete_wipe(s) ==
    [s EXCEPT !.progress_timer = "stopped", !.single_shot = TRUE]

\* update_mock_progress (lines 245-296)
update_mock_progress(s) ==
    LET t == [s EXCEPT !.progress_value = @ + 1]
    IN  IF t.progress_value >= CompleteAt THEN complete_wipe(t) ELSE t

\* show_results (lines 335-338): parent.wipe_completed(result_data), which
\* shows another screen
show_results(s) ==
    [s EXCEPT !.single_shot = FALSE, !.delivered = @ + 1, !.shown = FALSE]

\* on_cancel_clicked (lines 352-370) once QMessageBox.question has returned
on_cancel_answered(s, yes) ==
    IF yes
    THEN [s EXCEPT !.dialog = FALSE, !.progress_timer = "stopped",
                   !.cancelled = TRUE, !.shown = FALSE]
    ELSE [s EXCEPT !.dialog = FALSE]

-----------------------------------------------------------------------------
(* The state after construction *)

Init ==
    /\ \E rsa_ok, jwk_ok \in [Gens -> BOOLEAN] :
          /\ private_key = [g \in Gens |-> _setup_crypto(g, rsa_ok[g], jwk_ok[g]).private_key]
          /\ jwk_key = [g \in Gens |-> _setup_crypto(g, rsa_ok[g], jwk_ok[g]).jwk_key]
    /\ main_wipe_data = PyNone
    /\ cert_wipe_data = EmptyDict
    /\ files = [p \in Paths |-> NoFile]
    /\ op = NoOp
    /\ events = [s \in {"main", "cert"} |-> 0]
    /\ caller \in Callers
    /\ ui = MainScreenInit
    /\ threads = <<>>
    /\ gui = DataWipeProGUINew
    /\ tk_after = <<>>
    /\ tk_threads = <<RefreshThread>>
    /\ system_info = SystemInfoDetectorInit
    /\ clock = [now |-> 0, ticks |-> 0]
    /\ wipe_run = WipeThreadInit
    /\ progress_screen = WipeProgressScreenInit

-----------------------------------------------------------------------------
(* CertificateGenerator: the public operations *)

\* generate_json_certificate (lines 456-487): the JSON text it returns
generate_json_certificate(key, wipe_data, today, uuid, now) ==
    BuildEnvelope(key,
                  _prepare_certificate_data(wipe_data, NewCertId(today, uuid), now),
                  now)

\* generate_pdf_certificate (lines 450-454): the document it renders
generate_pdf_certificate(wipe_data, today, uuid, now) ==
    _prepare_certificate_data(wipe_data, NewCertId(today, uuid), now)

\* the steps of generate_certificate at which an exporter can raise
FailPoints == {"none", "pdf", "json", "qr"}

\* a generator that draws another id for the QR image
GenerateCertificateFiles_FreshQrId(fs, g, cert_id, cert_data, now, fail) ==
    [p \in Paths |->
        IF p = "out.pdf"
        THEN IF fail # "pdf"
             THEN PdfFile(cert_data, "generate_certificate", 0) ELSE NoFile
        ELSE IF p = "out.json"
        THEN IF fail \in {"none", "qr"}
             THEN JsonFile("dict", BuildEnvelope(jwk_key[g], cert_data, now),
                           "generate_certificate", g, 0)
             ELSE NoFile
        ELSE IF p = "out_qr.png"
        THEN IF fail = "none"
             THEN QrFile(CHOOSE id \in {NewCertId(Today, u) : u \in Uuids} :
                             id # cert_id,
                         "generate_certificate", 0)
             ELSE NoFile
        ELSE fs[p]]

\* generate_certificate (lines 59-94): the files it leaves at output_path, a
\* path that names no file before the call.  An exporter that raises writes
\* nothing and ends the call; what was written before it stays on disk.
GenerateCertificateFiles(fs, g, cert_id, cert_data, now, fail) ==
    [p \in Paths |->
        IF p = "out.pdf"
        THEN IF fail # "pdf"
             THEN PdfFile(cert_data, "generate_certificate", 0) ELSE NoFile
        ELSE IF p = "out.json"
        THEN IF fail \in {"none", "qr"}
             THEN JsonFile("dict", BuildEnvelope(jwk_key[g], cert_data, now),
                           "generate_certificate", g, 0)
             ELSE NoFile
        ELSE IF p = "out_qr.png"
        THEN IF fail = "none"
             THEN QrFile(cert_id, "generate_certificate", 0) ELSE NoFile
        ELSE fs[p]]

\* a generator whose QR exporter swallows its exception
GenerateCertificateResult_QrSwallowed(cert_id, fail) ==
    IF fail \in {"none", "qr"}
    THEN [certificate_id   |-> cert_id,
          pdf_path         |-> "out.pdf",
          json_path        |-> "out.json",
          qr_path          |-> "out_qr.png",
          verification_url |-> VerifyUrlPrefix \o cert_id,
          status           |-> "success"]
    ELSE [status |-> "error", error |-> fail]

\* generate_certificate: the dictionary it returns
GenerateCertificateResult(cert_id, fail) ==
    IF fail = "none"
    THEN [certificate_id   |-> cert_id,
          pdf_path         |-> "out.pdf",
          json_path        |-> "out.json",
          qr_path          |-> "out_qr.png",
          verification_url |-> VerifyUrlPrefix \o cert_id,
          status           |-> "success"]
    ELSE [status |-> "error", error |-> fail]

GenerateCertificate(g, wipe_data, uuid, now, fail) ==
    LET cert_id   == NewCertId(Today, uuid)
        cert_data == _prepare_certificate_data(wipe_data, cert_id, now)
    IN  /\ caller = "api"
        /\ files' = GenerateCertificateFiles(files, g, cert_id, cert_data, now,
                                             fail)
        /\ op' = [name |-> "generate_certificate", by |-> g,
                  wipe_data |-> wipe_data,
                  result |-> GenerateCertificateResult(cert_id, fail)]
        /\ UNCHANGED <<private_key, jwk_key, main_wipe_data, cert_wipe_data,
                       events, caller, ui, threads, not_qt>>

-----------------------------------------------------------------------------
(* Wipe events reaching the screens.  The file names the dialogs propose   *)
(* carry the record's certificate_id, so a new event starts with no file   *)
(* of its own.                                                             *)

ClearFiles(fs, ps) == [p \in Paths |-> IF p \in ps THEN NoFile ELSE fs[p]]

\* MainScreen.on_wipe_completed (lines 717-750), the slot of
\* WipeThread.wipe_completed: it keeps the record, hides the wipe card and
\* starts the drive_timer again.  Which thread's signal is delivered is the
\* caller's part.
MainOnWipeCompleted(wipe_data) ==
    /\ caller = "main"
    /\ events["main"] < MaxEvents
    /\ main_wipe_data' = wipe_data
    /\ events' = [events EXCEPT !["main"] = @ + 1]
    /\ files' = ClearFiles(files, {"main.json", "main.pdf"})
    /\ op' = [name |-> "on_wipe_completed", wipe_data |-> main_wipe_data']
    /\ ui' = [ui EXCEPT !.wipe_card_visible = FALSE,
                        !.drive_timer = IF @ = "absent" THEN @ ELSE "active"]
    /\ UNCHANGED <<private_key, jwk_key, cert_wipe_data, caller, not_qt>>

\* the records DataWipeProApp.wipe_completed is called with
ScreenWipeDatas == {WipeThreadResult(Drive, Now), ProgressResult(Now)}

\* DataWipeProApp.wipe_completed -> CertificateScreen.set_wipe_data
AppWipeCompleted(wipe_data) ==
    /\ caller = "cert"
    /\ events["cert"] < MaxEvents
    /\ cert_wipe_data' = wipe_data
    /\ events' = [events EXCEPT !["cert"] = @ + 1]
    /\ files' = ClearFiles(files, {"cert.json", "cert.pdf"})
    /\ op' = [name |-> "wipe_completed", wipe_data |-> wipe_data]
    /\ ui' = [ui EXCEPT !.current_screen = "certificate"]
    /\ UNCHANGED <<private_key, jwk_key, main_wipe_data, caller, threads, not_qt>>

-----------------------------------------------------------------------------
(* MainScreen.download_json / download_pdf *)

\* chosen: QFileDialog.getSaveFileName returned a file name
MainDownloadJson(chosen, uuid, now) ==
    /\ caller = "main"
    /\ IF IsNone(main_wipe_data) \/ "certificate_id" \notin DOMAIN main_wipe_data
       THEN \* self.wipe_data['certificate_id'] raises; the except shows an error
            /\ op' = [name |-> "main_download_json", outcome |-> "error"]
            /\ UNCHANGED files
       ELSE IF ~chosen
       THEN /\ op' = [name |-> "main_download_json", outcome |-> "cancelled"]
            /\ UNCHANGED files
       ELSE /\ files' = [files EXCEPT !["main.json"] =
                  JsonFile("dict",
                           generate_json_certificate(jwk_key["main"], main_wipe_data,
                                                     Today, uuid, now),
                           "main_download_json", "main", events["main"])]
            /\ op' = [name |-> "main_download_json", outcome |-> "saved"]
    /\ UNCHANGED <<private_key, jwk_key, main_wipe_data, cert_wipe_data, events,
                   caller, ui, threads, not_qt>>

MainDownloadPdf(chosen, uuid, now) ==
    /\ caller = "main"
    /\ IF IsNone(main_wipe_data) \/ "certificate_id" \notin DOMAIN main_wipe_data
       THEN /\ op' = [name |-> "main_download_pdf", outcome |-> "error"]
            /\ UNCHANGED files
       ELSE IF ~chosen
       THEN /\ op' = [name |-> "main_download_pdf", outcome |-> "cancelled"]
            /\ UNCHANGED files
       ELSE /\ files' = [files EXCEPT !["main.pdf"] =
                  PdfFile(generate_pdf_certificate(main_wipe_data, Today, uuid, now),
                          "main_download_pdf", events["main"])]
            /\ op' = [name |-> "main_download_pdf", outcome |-> "saved"]
    /\ UNCHANGED <<private_key, jwk_key, main_wipe_data, cert_wipe_data, events,
                   caller, ui, threads, not_qt>>

-----------------------------------------------------------------------------
(* CertificateScreen.download_json / download_pdf *)

\* self.wipe_data.get('certificate_id', f"DWP-{int(time.time())}")
ScreenCertId(wipe_data, now) == Get(wipe_data, "certificate_id", EpochCertId(now))

CertDownloadJson(chosen, now) ==
    /\ caller = "cert"
    /\ IF ~chosen
       THEN /\ op' = [name |-> "cert_download_json", outcome |-> "cancelled"]
            /\ UNCHANGED files
       ELSE LET cert_data == _prepare_certificate_data(
                                 cert_wipe_data, ScreenCertId(cert_wipe_data, now), now)
            IN  /\ files' = [files EXCEPT !["cert.json"] =
                      JsonFile("dict", BuildEnvelope(jwk_key["cert"], cert_data, now),
                               "cert_download_json", "cert", events["cert"])]
                /\ op' = [name |-> "cert_download_json", outcome |-> "saved"]
    /\ UNCHANGED <<private_key, jwk_key, main_wipe_data, cert_wipe_data, events,
                   caller, ui, threads, not_qt>>

\* line 302 hands the prepared document to the public generate_pdf_certificate,
\* which takes it for a wipe_data record and prepares a document again
CertDownloadPdf(chosen, uuid, now) ==
    /\ caller = "cert"
    /\ IF ~chosen
       THEN /\ op' = [name |-> "cert_download_pdf", outcome |-> "cancelled"]
            /\ UNCHANGED files
       ELSE LET cert_data == _prepare_certificate_data(
                                 cert_wipe_data, ScreenCertId(cert_wipe_data, now), now)
            IN  /\ files' = [files EXCEPT !["cert.pdf"] =
                      PdfFile(generate_pdf_certificate(cert_data, Today, uuid, now),
                              "cert_download_pdf", events["cert"])]
                /\ op' = [name |-> "cert_download_pdf", outcome |-> "saved"]
    /\ UNCHANGED <<private_key, jwk_key, main_wipe_data, cert_wipe_data, events,
                   caller, ui, threads, not_qt>>

-----------------------------------------------------------------------------
(* The file handed to the verifier: an exported file, possibly edited      *)

SetKey(d, k, v) == [x \in DOMAIN d \cup {k} |-> IF x = k THEN v ELSE d[x]]
DropKey(d, k) == [x \in DOMAIN d \ {k} |-> d[x]]

\* a certificate document with fields changed
ForgeSerial(doc) == [doc EXCEPT !.device.serial = "FORGED"]
ForgeStatus(doc) == [doc EXCEPT !.execution.status = "completed",
                                !.verification.passed = TRUE]

\* edits of the JSON text of an envelope
Tampers ==
    {"forge_serial", "forge_status", "algorithm_es256",
     "drop_certificate", "drop_signature", "drop_public_key",
     "garbage_signature", "garbage_public_key", "alter_token_payload"}

\* whole-file replacements: the empty object, JSON text that is not an
\* object, and text that is not JSON
Replacements == {"object", "list", "string", "number", "null", "text"}

Edits == {"none"} \cup Tampers \cup Replacements

TamperEnvelope(e, t) ==
    CASE t = "forge_serial" /\ "certificate" \in DOMAIN e ->
            [e EXCEPT !["certificate"] = ForgeSerial(@)]
      [] t = "forge_status" /\ "certificate" \in DOMAIN e ->
            [e EXCEPT !["certificate"] = ForgeStatus(@)]
      [] t = "algorithm_es256" -> SetKey(e, "algorithm", "ES256")
      [] t = "drop_certificate" -> DropKey(e, "certificate")
      [] t = "drop_signature" -> DropKey(e, "signature")
      [] t = "drop_public_key" -> DropKey(e, "public_key")
      [] t = "garbage_signature" -> SetKey(e, "signature", SigText("garbage"))
      [] t = "garbage_public_key" -> SetKey(e, "public_key", KeyText("garbage"))
      [] t = "alter_token_payload" /\ "signature" \in DOMAIN e
                                   /\ e["signature"].form = "jws" ->
            [e EXCEPT !["signature"].payload = JsonDumps(ForgeSerial(@.serialized))]
      [] OTHER -> e

\* the file at json_path when verify_certificate opens it
EditedFile(file, t) ==
    IF t = "none" THEN file
    ELSE IF t = "text" THEN [kind |-> "text", by |-> "edit"]
    ELSE IF t = "object" THEN JsonFile("dict", EmptyDict, "edit", "none", 0)
    ELSE IF t \in Replacements THEN JsonFile(t, EmptyDict, "edit", "none", 0)
    ELSE IF file.kind = "json" /\ file.top = "dict"
    THEN JsonFile("dict", TamperEnvelope(file.value, t), "edit", "none", file.event)
    ELSE file

-----------------------------------------------------------------------------
(* CertificateGenerator._generate_json_certificate / generate_json_certificate *)
(* called on their own: the envelope lands in out.json                     *)

JsonProducers == {"_generate_json_certificate", "generate_json_certificate"}

GenerateJsonCertificate(g, via, wipe_data, uuid) ==
    LET cert_data == _prepare_certificate_data(wipe_data, NewCertId(Today, uuid), Now)
    IN  /\ files' = [files EXCEPT !["out.json"] =
              JsonFile("dict", BuildEnvelope(jwk_key[g], cert_data, Now), via, g, 0)]
        /\ op' = [name |-> via, by |-> g, wipe_data |-> wipe_data]
        /\ UNCHANGED <<private_key, jwk_key, main_wipe_data, cert_wipe_data,
                       events, caller, ui, threads, not_qt>>

-----------------------------------------------------------------------------
(* CertificateGenerator.verify_certificate, called on a path *)

VerifyCertificate(g, p, t) ==
    LET file == EditedFile(files[p], t)
    IN  /\ op' = [name |-> "verify_certificate", key |-> jwk_key[g],
                  original |-> files[p], file |-> file,
                  call |-> verify_certificate(jwk_key[g], file)]
        /\ UNCHANGED <<private_key, jwk_key, main_wipe_data, cert_wipe_data, files,
                       events, caller, ui, threads, not_qt>>

-----------------------------------------------------------------------------
(* The command line: python3 src/main.py --verify FILE                     *)

\* DataWipePro.verify_certificate (src/src/main.py lines 102-109): what it
\* prints for the verdict of cert_generator.verify_certificate
CliMessage(valid) ==
    IF valid THEN "Certificate is valid and tamper-proof"
    ELSE "Certificate verification failed"

\* main() returns after app.verify_certificate(args.verify) and the
\* interpreter ends with status 0: no branch calls sys.exit
CliExitStatus(valid) == 0

\* valid: the verdict of the certificate_generator module on the CLI's path
CliVerify(valid) ==
    /\ caller = "cli"
    /\ op' = [name |-> "cli_verify", valid |-> valid,
              printed |-> CliMessage(valid),
              exit_status |-> CliExitStatus(valid)]
    /\ UNCHANGED <<private_key, jwk_key, main_wipe_data, cert_wipe_data, files,
                   events, caller, ui, threads, not_qt>>

-----------------------------------------------------------------------------
(* Specification of issuance: the callers *)

DoGenerateCertificate ==
    \E g \in Gens, w \in WipeDatas, u \in Uuids, f \in FailPoints :
        GenerateCertificate(g, w, u, Now, f)
\* the signal of a WipeThread started on the drive reaches its slot
DoMainOnWipeCompleted ==
    /\ MainOnWipeCompleted(WipeThreadResult(Drive, Now))
    /\ UNCHANGED threads
DoAppWipeCompleted == \E w \in ScreenWipeDatas : AppWipeCompleted(w)
DoMainDownloadJson ==
    \E chosen \in BOOLEAN, u \in Uuids : MainDownloadJson(chosen, u, Now)
DoMainDownloadPdf ==
    \E chosen \in BOOLEAN, u \in Uuids : MainDownloadPdf(chosen, u, Now)
DoCertDownloadJson == \E chosen \in BOOLEAN : CertDownloadJson(chosen, Now)
DoCertDownloadPdf ==
    \E chosen \in BOOLEAN, u \in Uuids : CertDownloadPdf(chosen, u, Now)
DoCliVerify == \E valid \in BOOLEAN : CliVerify(valid)

Next ==
    \/ DoGenerateCertificate
    \/ DoMainOnWipeCompleted
    \/ DoAppWipeCompleted
    \/ DoMainDownloadJson
    \/ DoMainDownloadPdf
    \/ DoCertDownloadJson
    \/ DoCertDownloadPdf
    \/ DoCliVerify

Spec == Init /\ [][Next]_vars

-----------------------------------------------------------------------------
(* Specification of signing and verification: envelopes are produced and   *)
(* verify_certificate is called on them, as written or edited              *)

DoGenerateJsonCertificate ==
    \E g \in Gens, via \in JsonProducers, w \in WipeDatas, u \in Uuids :
        GenerateJsonCertificate(g, via, w, u)
DoVerifyCertificate ==
    \E g \in Gens, t \in Edits : VerifyCertificate(g, "out.json", t)

InitVerify == Init /\ caller = "api"

NextVerify ==
    \/ DoGenerateJsonCertificate
    \/ DoVerifyCertificate

SpecVerify == InitVerify /\ [][NextVerify]_vars

-----------------------------------------------------------------------------
(* MainScreen: drive list, selection and the wipe thread.  The handlers    *)
(* run one at a time on the GUI thread; a WipeThread runs beside them and  *)
(* reaches the screen only through its queued wipe_completed signal.       *)

\* a bound on the WipeThread objects created in one run
MaxThreads == 3

\* two more descriptors: another drive, and another drive at the path of
\* the first
DriveB ==
    [name |-> "WDC WD10EZEX", model |-> "WDC WD10EZEX",
     device_path |-> "/dev/sdb", size |-> <<0, 0, 512, 931>>,
     type |-> "HDD", interface |-> "SATA", serial |-> "WD-WCC6Y0"]
DriveSwapped == [Drive EXCEPT !.serial = "2301E6F9D8C7"]

\* what DriveDetector.get_storage_devices can return
DriveLists ==
    {<<>>, <<Drive>>, <<DriveB>>, <<Drive, DriveB>>, <<DriveB, Drive>>,
     <<DriveSwapped>>, <<DriveSwapped, DriveB>>}

\* drive.get('device_path') or drive.get('serial')
DriveKey(drive) ==
    IF Truthy(Get(drive, "device_path", "")) THEN drive["device_path"]
    ELSE Get(drive, "serial", "")

\* `if self.selected_device:` is false for None (and for an empty dict)
HasSelection(u) == ~IsNone(u.selected_device) /\ u.selected_device # EmptyDict

\* the last position of drives whose key is key, 0 when there is none
RestoredIndex(drives, key) ==
    LET hits == {i \in 1..Len(drives) : DriveKey(drives[i]) = key}
    IN  IF hits = {} THEN 0 ELSE CHOOSE i \in hits : \A j \in hits : j <= i

\* an update_drive_list that clears the selection whenever the drive is gone,
\* whether or not a wipe thread exists
update_drive_list_ClearsDuringWipe(u, drives) ==
    LET key      == IF HasSelection(u) THEN DriveKey(u.selected_device) ELSE ""
        restored == IF Truthy(key) THEN RestoredIndex(drives, key) ELSE 0
    IN  IF drives = <<>>
        THEN [u EXCEPT !.drives = drives, !.combo_index = 0,
                       !.wipe_button_enabled = FALSE]
        ELSE IF restored > 0
        THEN [u EXCEPT !.drives = drives, !.combo_index = restored,
                       !.selected_device = drives[restored],
                       !.wipe_button_enabled = TRUE]
        ELSE [u EXCEPT !.drives = drives, !.combo_index = 0,
                       !.selected_device = PyNone,
                       !.wipe_button_enabled = FALSE]

\* MainScreen.update_drive_list (lines 615-658): the screen after the call
update_drive_list(u, drives) ==
    LET key      == IF HasSelection(u) THEN DriveKey(u.selected_device) ELSE ""
        restored == IF Truthy(key) THEN RestoredIndex(drives, key) ELSE 0
    IN  IF drives = <<>>
        THEN [u EXCEPT !.drives = drives, !.combo_index = 0,
                       !.wipe_button_enabled = FALSE]
        ELSE IF restored > 0
        THEN [u EXCEPT !.drives = drives, !.combo_index = restored,
                       !.selected_device = drives[restored],
                       !.wipe_button_enabled = TRUE]
        ELSE [u EXCEPT !.drives = drives, !.combo_index = 0,
                       !.selected_device =
                           IF u.wipe_thread = 0 THEN PyNone ELSE @,
                       !.wipe_button_enabled = FALSE]

\* MainScreen.on_device_selected_immediate (lines 660-680)
on_device_selected_immediate(u, index) ==
    IF index > 0 /\ index <= Len(u.drives)
    THEN [u EXCEPT !.combo_index = index,
                   !.selected_device = u.drives[index],
                   !.wipe_button_enabled = TRUE]
    ELSE [u EXCEPT !.combo_index = index,
                   !.selected_device = PyNone,
                   !.wipe_button_enabled = FALSE]

\* a start_wipe that leaves the drive_timer running
start_wipe_TimerKeepsRunning(u, t) ==
    IF ~HasSelection(u) THEN u
    ELSE [u EXCEPT !.wipe_button_enabled = FALSE,
                   !.device_combo_enabled = FALSE,
                   !.wipe_thread = t]

\* MainScreen.start_wipe (lines 682-705): the screen after the call; t is
\* the position of the new WipeThread
start_wipe(u, t) ==
    IF ~HasSelection(u) THEN u
    ELSE [u EXCEPT !.wipe_button_enabled = FALSE,
                   !.device_combo_enabled = FALSE,
                   !.wipe_thread = t,
                   !.drive_timer = IF @ = "absent" THEN @ ELSE "stopped"]

\* WipeThread(device_info) after start()
NewWipeThread(device_info) == [device_info |-> device_info, state |-> "running"]

UiUnchanged ==
    UNCHANGED <<private_key, jwk_key, main_wipe_data, cert_wipe_data, files,
                events, caller, not_qt>>

\* DataWipeProApp.start_drive_detection (src/main.py lines 221-228): creates
\* and starts the timer, then refreshes once
StartDriveDetection(drives) ==
    /\ caller = "main"
    /\ ui.drive_timer = "absent"
    /\ ui' = update_drive_list([ui EXCEPT !.drive_timer = "active"], drives)
    /\ op' = [name |-> "start_drive_detection"]
    /\ UNCHANGED threads
    /\ UiUnchanged

\* drive_timer.timeout -> DataWipeProApp.refresh_drives -> update_drive_list
RefreshDrives(drives) ==
    /\ caller = "main"
    /\ ui.drive_timer = "active"
    /\ ui' = update_drive_list(ui, drives)
    /\ op' = [name |-> "refresh_drives"]
    /\ UNCHANGED threads
    /\ UiUnchanged

\* the user picks another entry of device_combo: currentIndexChanged
SelectDevice(index) ==
    /\ caller = "main"
    /\ ui.current_screen = "main"
    /\ ui.wipe_card_visible
    /\ ui.device_combo_enabled
    /\ index \in 0..Len(ui.drives)
    /\ index # ui.combo_index
    /\ ui' = on_device_selected_immediate(ui, index)
    /\ op' = [name |-> "on_device_selected_immediate"]
    /\ UNCHANGED threads
    /\ UiUnchanged

\* the user clicks wipe_button: clicked -> start_wipe
ClickWipe ==
    /\ caller = "main"
    /\ ui.current_screen = "main"
    /\ ui.wipe_card_visible
    /\ ui.wipe_button_enabled
    /\ Len(threads) < MaxThreads
    /\ ui' = start_wipe(ui, Len(threads) + 1)
    /\ threads' = IF HasSelection(ui)
                  THEN Append(threads, NewWipeThread(ui.selected_device))
                  ELSE threads
    /\ op' = [name |-> "start_wipe"]
    /\ UiUnchanged

\* WipeThread.run reaches its end: wipe_completed.emit(wipe_data) queues the
\* signal for the GUI thread and the thread finishes
WipeThreadRun(i) ==
    /\ caller = "main"
    /\ i \in 1..Len(threads)
    /\ threads[i].state = "running"
    /\ threads' = [threads EXCEPT ![i].state = "emitted"]
    /\ op' = [name |-> "WipeThread.run"]
    /\ UNCHANGED ui
    /\ UiUnchanged

\* the GUI thread delivers the queued signal of thread i to on_wipe_completed
DeliverWipeCompleted(i) ==
    /\ i \in 1..Len(threads)
    /\ threads[i].state = "emitted"
    /\ MainOnWipeCompleted(WipeThreadResult(threads[i].device_info, Now))
    /\ threads' = [threads EXCEPT ![i].state = "handled"]

\* MainScreen.reset_for_new_wipe (lines 752-770): the screen after the call;
\* self.wipe_data = None is the caller's assignment to main_wipe_data
reset_for_new_wipe(u) ==
    [u EXCEPT !.selected_device = PyNone,
              !.wipe_thread = 0,
              !.device_combo_enabled = TRUE,
              !.wipe_button_enabled = FALSE]

\* DataWipeProApp.wipe_completed (src/main.py lines 250-254) with the data of
\* the finished wipe: the certificate screen gets it and is shown
ShowCertificateScreen ==
    /\ caller = "main"
    /\ ui.current_screen = "main"
    /\ ~IsNone(main_wipe_data)
    /\ cert_wipe_data' = main_wipe_data
    /\ files' = ClearFiles(files, {"cert.json", "cert.pdf"})
    /\ ui' = [ui EXCEPT !.current_screen = "certificate"]
    /\ op' = [name |-> "wipe_completed", wipe_data |-> main_wipe_data]
    /\ UNCHANGED <<private_key, jwk_key, main_wipe_data, events, caller,
                   threads, not_qt>>

\* the user clicks the back button of CertificateScreen: go_back (lines
\* 308-313) shows the main screen and calls reset_for_new_wipe
GoBack ==
    /\ caller = "main"
    /\ ui.current_screen = "certificate"
    /\ ui' = reset_for_new_wipe([ui EXCEPT !.current_screen = "main"])
    /\ main_wipe_data' = PyNone
    /\ op' = [name |-> "go_back"]
    /\ UNCHANGED <<private_key, jwk_key, cert_wipe_data, files, events,
                   caller, threads, not_qt>>

-----------------------------------------------------------------------------
(* Specification of the wipe flow of MainScreen *)

DoStartDriveDetection == \E drives \in DriveLists : StartDriveDetection(drives)
DoRefreshDrives == \E drives \in DriveLists : RefreshDrives(drives)
DoSelectDevice == \E index \in 0..Len(ui.drives) : SelectDevice(index)
DoWipeThreadRun == \E i \in 1..MaxThreads : WipeThreadRun(i)
DoDeliverWipeCompleted == \E i \in 1..MaxThreads : DeliverWipeCompleted(i)

InitWipe == Init /\ caller = "main"

NextWipe ==
    \/ DoStartDriveDetection
    \/ DoRefreshDrives
    \/ DoSelectDevice
    \/ ClickWipe
    \/ DoWipeThreadRun
    \/ DoDeliverWipeCompleted
    \/ ShowCertificateScreen
    \/ GoBack

SpecWipe == InitWipe /\ [][NextWipe]_vars

-----------------------------------------------------------------------------
(* Specification of capacity formatting: _format_size is called on byte    *)
(* counts below 2^53, the range in which int / 1024.0 is exact             *)

\* the limbs the byte counts are built from: 256/1024 and 512/1024 are the
\* fractions at which ten times the value falls half-way between two tenths
SizeLimbs == {0, 256, 512, 1023}

\* the byte count l * 1024^z
ShiftLimbs(l, z) == [i \in 1..z |-> 0] \o l

Below2To53(l) ==
    \A i \in 1..Len(l) : i > Len(SizeUnits) => l[i] = 0

FiveHundredGiB == <<0, 0, 0, 500>>
PebiSizes == {<<0, 0, 0, 0, 512, 3>>, <<1023, 1023, 1023, 1023, 1023, 7>>}

\* three limbs at every position of the ladder, and the named counts
Sizes ==
    {l \in {ShiftLimbs(m, z) : m \in [1..3 -> SizeLimbs], z \in 0..Len(SizeUnits)} :
        Below2To53(l)}
    \cup PebiSizes \cup {FiveHundredGiB, Drive.size}

FormatSize(size_bytes) ==
    /\ caller = "api"
    /\ op' = [name |-> "_format_size", size_bytes |-> size_bytes,
              result |-> _format_size(size_bytes)]
    /\ UNCHANGED <<private_key, jwk_key, main_wipe_data, cert_wipe_data, files,
                   events, caller, ui, threads, not_qt>>

DoFormatSize == \E n \in Sizes : FormatSize(n)

InitFormat == Init /\ caller = "api"

NextFormat == DoFormatSize

SpecFormat == InitFormat /\ [][NextFormat]_vars

-----------------------------------------------------------------------------
(* DataWipeProGUI: the steps of the main thread and of the worker threads *)

MaxRefreshes == 2
MaxWipes == 1

\* the threads of one kind started so far
ThreadsOfKind(kind) == {i \in 1..Len(tk_threads) : tk_threads[i].kind = kind}

\* the threads for which is_alive() holds
AliveThreads == {i \in 1..Len(tk_threads) : tk_threads[i].pc # "done"}

\* a field of a worker record that the worker has not assigned yet
NotYet == [not_yet |-> TRUE]

\* the certificate id the certificate generator of src/src issues (that
\* module is not part of the sources; the id is an opaque text)
GuiCertificateId == "certificate-id"

\* the user clicks refresh_btn: command=self.refresh_devices_threaded
ClickRefresh ==
    /\ caller = "gui"
    /\ gui.dialog = "none"
    /\ gui.refresh_btn = "normal"
    /\ \/ RefreshIgnored(gui, AliveThreads)
       \/ Cardinality(ThreadsOfKind("refresh")) < MaxRefreshes
    /\ IF RefreshIgnored(gui, AliveThreads)
       THEN UNCHANGED <<gui, tk_threads>>
       ELSE /\ gui' = refresh_devices_threaded(gui, Len(tk_threads) + 1)
            /\ tk_threads' = Append(tk_threads, RefreshThread)
    /\ op' = [name |-> "refresh_devices_threaded"]
    /\ UNCHANGED <<tk_after, not_tk>>

\* refresh_worker, lines 494-506: detection returns devices or raises, and
\* the matching callback is scheduled
RefreshWorkerDetect(i, devices, raises) ==
    /\ caller = "gui"
    /\ i \in ThreadsOfKind("refresh")
    /\ tk_threads[i].pc = "detect"
    /\ tk_after' = Append(tk_after,
                          IF raises THEN After("_handle_refresh_error", <<>>)
                          ELSE After("_update_devices_ui", devices))
    /\ tk_threads' = [tk_threads EXCEPT ![i].pc = "finally"]
    /\ UNCHANGED <<gui, op, not_tk>>

\* refresh_worker, lines 507-510: the finally clause schedules
\* _reset_refresh_state, and the thread ends
RefreshWorkerFinally(i) ==
    /\ caller = "gui"
    /\ i \in ThreadsOfKind("refresh")
    /\ tk_threads[i].pc = "finally"
    /\ tk_after' = Append(tk_after, After("_reset_refresh_state", <<>>))
    /\ tk_threads' = [tk_threads EXCEPT ![i].pc = "done"]
    /\ UNCHANGED <<gui, op, not_tk>>

\* the main loop (also the one a messagebox runs while it is open) takes the
\* oldest scheduled callback and runs it
TkRunCallback ==
    /\ caller = "gui"
    /\ tk_after # <<>>
    /\ gui' = RunCallback(gui, Head(tk_after))
    /\ tk_after' = Tail(tk_after)
    /\ op' = [name |-> Head(tk_after).fn]
    /\ UNCHANGED <<tk_threads, not_tk>>

\* the user picks an entry of device_dropdown: <<ComboboxSelected>>
ComboboxSelected(index) ==
    /\ caller = "gui"
    /\ gui.dialog = "none"
    /\ gui.device_dropdown = "readonly"
    /\ index \in 1..Len(gui.dropdown_values)
    /\ gui' = on_device_selected(gui, index)
    /\ op' = [name |-> "on_device_selected"]
    /\ UNCHANGED <<tk_after, tk_threads, not_tk>>

\* the user clicks wipe_button: start_wipe (lines 644-660) up to the
\* messagebox it opens
ClickWipeButton ==
    /\ caller = "gui"
    /\ gui.dialog = "none"
    /\ gui.wipe_button = "normal"
    /\ Cardinality(ThreadsOfKind("wipe")) < MaxWipes
    /\ gui' = [gui EXCEPT !.dialog = IF HasDevice(gui) THEN "confirm"
                                     ELSE "error"]
    /\ op' = [name |-> "start_wipe"]
    /\ UNCHANGED <<tk_after, tk_threads, not_tk>>

\* the user answers askyesno: start_wipe, lines 662-673
AnswerConfirm(result) ==
    /\ caller = "gui"
    /\ gui.dialog = "confirm"
    /\ IF result
       THEN /\ gui' = start_wipe_confirmed(gui)
            /\ tk_threads' = Append(tk_threads, WipeWorker)
       ELSE /\ gui' = [gui EXCEPT !.dialog = "none"]
            /\ UNCHANGED tk_threads
    /\ op' = [name |-> "start_wipe answered", result |-> result]
    /\ UNCHANGED <<tk_after, not_tk>>

\* the user closes the showerror box
DismissError ==
    /\ caller = "gui"
    /\ gui.dialog = "error"
    /\ gui' = [gui EXCEPT !.dialog = "none"]
    /\ op' = [name |-> "showerror closed"]
    /\ UNCHANGED <<tk_after, tk_threads, not_tk>>

\* perform_wipe, lines 676-688 and 699-706: wipe_device is called with the
\* device selected at that moment, reports progress `reports` times, and
\* returns success, returns failure or raises
PerformWipeDevice(i, outcome, reports) ==
    /\ caller = "gui"
    /\ i \in ThreadsOfKind("wipe")
    /\ tk_threads[i].pc = "wipe_device"
    /\ tk_threads' = [tk_threads EXCEPT ![i] =
           [kind |-> "wipe",
            pc |-> IF outcome = "success" THEN "generate_certificate"
                   ELSE "finally",
            success |-> outcome = "success",
            wiped_device |-> gui.selected_device,
            cert_device |-> NotYet]]
    /\ tk_after' = tk_after
                   \o [k \in 1..reports |-> After("update_progress", 50)]
                   \o << IF outcome = "success"
                         THEN After("update_progress", 95)
                         ELSE After("show_error_dialog", <<>>) >>
    /\ UNCHANGED <<gui, op, not_tk>>

\* perform_wipe, lines 690-694 and 703-706: generate_certificate is called
\* with the device selected at that moment and returns the certificate data
\* or raises
PerformGenerateCertificate(i, raises) ==
    /\ caller = "gui"
    /\ i \in ThreadsOfKind("wipe")
    /\ tk_threads[i].pc = "generate_certificate"
    /\ tk_threads' = [tk_threads EXCEPT
           ![i].pc = IF raises THEN "finally" ELSE "sleep",
           ![i].success = ~raises,
           ![i].cert_device = gui.selected_device]
    /\ tk_after' = Append(tk_after,
                          IF raises THEN After("show_error_dialog", <<>>)
                          ELSE After("update_progress", 100))
    /\ UNCHANGED <<gui, op, not_tk>>

\* perform_wipe, lines 695-698: after the sleep, show_completion_state is
\* scheduled with the certificate data
PerformShowCompletion(i) ==
    /\ caller = "gui"
    /\ i \in ThreadsOfKind("wipe")
    /\ tk_threads[i].pc = "sleep"
    /\ tk_after' = Append(tk_after,
           After("show_completion_state",
                 [certificate_id |-> GuiCertificateId]))
    /\ tk_threads' = [tk_threads EXCEPT ![i].pc = "finally"]
    /\ UNCHANGED <<gui, op, not_tk>>

\* perform_wipe, lines 707-709: the finally clause clears is_wiping on the
\* worker thread and schedules reset_ui
PerformFinally(i) ==
    /\ caller = "gui"
    /\ i \in ThreadsOfKind("wipe")
    /\ tk_threads[i].pc = "finally"
    /\ gui' = [gui EXCEPT !.is_wiping = FALSE]
    /\ tk_after' = Append(tk_after, After("reset_ui", <<>>))
    /\ tk_threads' = [tk_threads EXCEPT ![i] =
           [kind |-> "wipe", pc |-> "done", success |-> @.success]]
    /\ UNCHANGED <<op, not_tk>>

-----------------------------------------------------------------------------
(* Specification of DataWipeProGUI *)

DoRefreshWorkerDetect ==
    \E i \in 1..Len(tk_threads), devices \in GuiDeviceLists, raises \in BOOLEAN :
        RefreshWorkerDetect(i, devices, raises)
DoRefreshWorkerFinally == \E i \in 1..Len(tk_threads) : RefreshWorkerFinally(i)
DoComboboxSelected ==
    \E index \in 1..Len(gui.dropdown_values) : ComboboxSelected(index)
DoAnswerConfirm == \E result \in BOOLEAN : AnswerConfirm(result)
DoPerformWipeDevice ==
    \E i \in 1..Len(tk_threads),
       outcome \in {"success", "failure", "raises"}, reports \in 0..1 :
        PerformWipeDevice(i, outcome, reports)
DoPerformGenerateCertificate ==
    \E i \in 1..Len(tk_threads), raises \in BOOLEAN :
        PerformGenerateCertificate(i, raises)
DoPerformShowCompletion == \E i \in 1..Len(tk_threads) : PerformShowCompletion(i)
DoPerformFinally == \E i \in 1..Len(tk_threads) : PerformFinally(i)

\* the generators of the Qt application are not part of this program
InitGui ==
    /\ Init
    /\ caller = "gui"
    /\ \A g \in Gens : private_key[g] = "None" /\ jwk_key[g] = "None"

NextGui ==
    \/ ClickRefresh
    \/ DoRefreshWorkerDetect
    \/ DoRefreshWorkerFinally
    \/ TkRunCallback
    \/ DoComboboxSelected
    \/ ClickWipeButton
    \/ DoAnswerConfirm
    \/ DismissError
    \/ DoPerformWipeDevice
    \/ DoPerformGenerateCertificate
    \/ DoPerformShowCompletion
    \/ DoPerformFinally

SpecGui == InitGui /\ [][NextGui]_vars

\* the threads are scheduled and the main loop keeps running
SpecGuiLive ==
    /\ SpecGui
    /\ WF_vars(DoRefreshWorkerDetect)
    /\ WF_vars(DoRefreshWorkerFinally)
    /\ WF_vars(TkRunCallback)

-----------------------------------------------------------------------------
(* Specification of SystemInfoDetector: calls of get_system_info as time   *)
(* passes                                                                  *)

MaxTicks == 4

\* how far the clock moves between two calls: a second, just under and just
\* over the cache lifetime, a day
ClockSteps == {1, CacheSeconds - 1, CacheSeconds + 1, SecondsPerDay}

\* time passes
Tick(dt) ==
    /\ caller = "api"
    /\ clock.ticks < MaxTicks
    /\ clock' = [now |-> clock.now + dt, ticks |-> clock.ticks + 1]
    /\ op' = [name |-> "tick"]
    /\ UNCHANGED <<system_info, not_sys>>

\* a call of get_system_info
GetSystemInfo(force_refresh) ==
    LET r == get_system_info(system_info, force_refresh, clock.now)
    IN  /\ caller = "api"
        /\ system_info' = r.detector
        /\ op' = [name |-> "get_system_info", force_refresh |-> force_refresh,
                  returned |-> r.returned, detected |-> r.detected]
        /\ UNCHANGED <<clock, not_sys>>

DoTick == \E dt \in ClockSteps : Tick(dt)
DoGetSystemInfo == \E force_refresh \in BOOLEAN : GetSystemInfo(force_refresh)

\* no certificate generator takes part
InitSystemInfo ==
    /\ Init
    /\ caller = "api"
    /\ \A g \in Gens : private_key[g] = "None" /\ jwk_key[g] = "None"

NextSystemInfo == DoTick \/ DoGetSystemInfo

SpecSystemInfo == InitSystemInfo /\ [][NextSystemInfo]_vars

-----------------------------------------------------------------------------
(* Specification of one WipeThread: run() beside a caller of stop() *)

\* the thread executes its next statement
RunStep(more) ==
    /\ caller = "main"
    /\ wipe_run.stage # "returned"
    /\ wipe_run' = run_step(wipe_run, more)
    /\ op' = [name |-> "WipeThread.run", stage |-> wipe_run.stage]
    /\ UNCHANGED not_run

\* WipeThread.stop (lines 118-119), called from another thread
Stop ==
    /\ caller = "main"
    /\ wipe_run' = [wipe_run EXCEPT !.is_running = FALSE]
    /\ op' = [name |-> "WipeThread.stop"]
    /\ UNCHANGED not_run

DoRunStep == \E more \in BOOLEAN : RunStep(more)

\* no certificate generator takes part
InitRun ==
    /\ Init
    /\ caller = "main"
    /\ \A g \in Gens : private_key[g] = "None" /\ jwk_key[g] = "None"

NextRun == DoRunStep \/ Stop

SpecRun == InitRun /\ [][NextRun]_vars

-----------------------------------------------------------------------------
(* Specification of WipeProgressScreen: one mock wipe, the timers of the   *)
(* event loop and the user at the Cancel button.  QMessageBox.question     *)
(* runs the event loop while it is open, so timers fire then too.          *)

\* the parent shows the screen and calls start_mock_wipe
StartMockWipe ==
    /\ caller = "main"
    /\ ~progress_screen.started
    /\ progress_screen' = start_mock_wipe(progress_screen)
    /\ op' = [name |-> "start_mock_wipe"]
    /\ UNCHANGED not_progress

\* progress_timer.timeout -> update_mock_progress
ProgressTimeout ==
    /\ caller = "main"
    /\ progress_screen.progress_timer = "active"
    /\ progress_screen' = update_mock_progress(progress_screen)
    /\ op' = [name |-> "update_mock_progress"]
    /\ UNCHANGED not_progress

\* the single-shot timer of line 333 fires: show_results
SingleShotTimeout ==
    /\ caller = "main"
    /\ progress_screen.single_shot
    /\ progress_screen' = show_results(progress_screen)
    /\ op' = [name |-> "show_results"]
    /\ UNCHANGED not_progress

\* the user clicks cancel_button: on_cancel_clicked opens the question box
ClickCancel ==
    /\ caller = "main"
    /\ progress_screen.shown
    /\ ~progress_screen.dialog
    /\ progress_screen' = [progress_screen EXCEPT !.dialog = TRUE]
    /\ op' = [name |-> "on_cancel_clicked"]
    /\ UNCHANGED not_progress

\* the user answers the question box
AnswerCancel(yes) ==
    /\ caller = "main"
    /\ progress_screen.dialog
    /\ progress_screen' = on_cancel_answered(progress_screen, yes)
    /\ op' = [name |-> "on_cancel_clicked answered", yes |-> yes]
    /\ UNCHANGED not_progress

DoAnswerCancel == \E yes \in BOOLEAN : AnswerCancel(yes)

\* no certificate generator takes part
InitProgress ==
    /\ Init
    /\ caller = "main"
    /\ \A g \in Gens : private_key[g] = "None" /\ jwk_key[g] = "None"

NextProgress ==
    \/ StartMockWipe
    \/ ProgressTimeout
    \/ SingleShotTimeout
    \/ ClickCancel
    \/ DoAnswerCancel

SpecProgress == InitProgress /\ [][NextProgress]_vars

-----------------------------------------------------------------------------
(* Properties of signing and verification (SpecVerify) *)

\* the state right after a call of verify_certificate
VerifyCalled == op.name = "verify_certificate"

\* the file is an envelope exactly as a generator wrote it
GeneratorWritten(file) == file.kind = "json" /\ file.by \in JsonProducers

\* the verifier was handed the file as it was written
Unedited == op.file = op.original

EnvelopeKeys == {"certificate", "signature", "public_key"}

\* C1: for a signed envelope written by the generator, changing the
\* 'certificate' object while leaving 'signature' and 'public_key' untouched
\* makes verify_certificate return False.
C1_TamperRejected ==
    (/\ VerifyCalled
     /\ GeneratorWritten(op.original)
     /\ jwk_key[op.original.gen] # "None"
     /\ op.key # "None"
     /\ op.file.kind = "json" /\ op.file.top = "dict"
     /\ EnvelopeKeys \subseteq DOMAIN op.file.value
     /\ op.file.value["signature"] = op.original.value["signature"]
     /\ op.file.value["public_key"] = op.original.value["public_key"]
     /\ op.file.value["certificate"] # op.original.value["certificate"])
    => op.call.value = FALSE

\* C2: when the signing generator and the verifying generator hold a key,
\* verify_certificate applied to the envelope exactly as
\* _generate_json_certificate / generate_json_certificate wrote it, for any
\* wipe-data record and certificate id, returns True.
C2_RoundTrip ==
    (/\ VerifyCalled
     /\ Unedited
     /\ GeneratorWritten(op.original)
     /\ jwk_key[op.original.gen] # "None"
     /\ op.key # "None")
    => op.call = Return(TRUE, "")

\* a signed envelope has been verified as written, by a generator other than
\* the one that signed it
C2_Witness ==
    /\ VerifyCalled
    /\ Unedited
    /\ GeneratorWritten(op.original)
    /\ jwk_key[op.original.gen] # "None"
    /\ op.key # "None"
    /\ op.key # jwk_key[op.original.gen]
    /\ op.original.value["signature"].form = "jws"
    /\ op.call.value = TRUE

\* the envelope a generator without a signing key writes carries, under
\* 'signature', the given sentinel text, and verify_certificate returns True
\* (demo mode) for that envelope as written
UnsignedSentinelIs(sentinel) ==
    /\ (/\ op.name \in JsonProducers
        /\ jwk_key[op.by] = "None")
       => /\ "signature" \in DOMAIN files["out.json"].value
          /\ files["out.json"].value["signature"] = SigText(sentinel)
    /\ (/\ VerifyCalled
        /\ Unedited
        /\ GeneratorWritten(op.original)
        /\ jwk_key[op.original.gen] = "None")
       => /\ op.original.value["signature"] = SigText(sentinel)
          /\ op.call = Return(TRUE, "Certificate is in demo mode (no signature)")

SupportedAlgorithms == {"RS256"}

\* C6: verify_certificate returns False for every envelope whose 'algorithm'
\* field is an unsupported value such as "ES256", whatever the signature
\* token and the public key are.
C6_AlgorithmChecked ==
    (/\ VerifyCalled
     /\ op.file.kind = "json" /\ op.file.top = "dict"
     /\ "algorithm" \in DOMAIN op.file.value
     /\ op.file.value["algorithm"] \notin SupportedAlgorithms)
    => op.call.value = FALSE

\* C7: verify_certificate applied to a JSON object without the 'certificate'
\* key returns False with a report of malformed input, which is not the
\* report of a signature mismatch; it never returns True for such an object.
C7_MalformedRejected ==
    (/\ VerifyCalled
     /\ op.file.kind = "json" /\ op.file.top = "dict"
     /\ "certificate" \notin DOMAIN op.file.value)
    => /\ op.call.value = FALSE
       /\ op.call.printed \notin {"", "Signature verification failed"}

\* C8: verify_certificate never raises: whatever the file holds (missing
\* fields, an unparsable public_key, a garbage or altered token, text that is
\* not a JSON object, no file at all) the call returns a boolean.
C8_NeverRaises ==
    VerifyCalled => /\ op.call.outcome = "return"
                    /\ op.call.value \in BOOLEAN

\* a call whose body raised outside the signature check (the file is not a
\* JSON object) returned False through the outer except
C8_Witness ==
    /\ VerifyCalled
    /\ VerifyBody(op.key, op.file).outcome = "raise"
    /\ op.call = Return(FALSE, "Certificate verification failed")

-----------------------------------------------------------------------------
(* Properties of issuance (Spec) *)

\* the status of the wipe a record reports; the builder reads it with the
\* default 'completed' (line 135)
WipeStatus(wipe_data) == Get(wipe_data, "status", "completed")

\* C3: generate_certificate returns status 'success', or leaves a JSON or
\* PDF file, only for a wipe result whose status is 'completed'.
C3_IssuedOnlyWhenCompleted ==
    (/\ op.name = "generate_certificate"
     /\ \/ op.result.status = "success"
        \/ files["out.json"].kind # "none"
        \/ files["out.pdf"].kind # "none")
    => WipeStatus(op.wipe_data) = "completed"

\* the screens whose download handlers export certificates
Screens == {"main", "cert"}

\* C4: for one wipe event, a JSON export followed by a PDF export through the
\* download handlers of one screen leaves two files with the same
\* certificate_id and the same verification URL / QR payload.
C4_IdStable ==
    \A s \in Screens :
        LET json == files[s \o ".json"]
            pdf  == files[s \o ".pdf"]
        IN  (/\ op = [name |-> s \o "_download_pdf", outcome |-> "saved"]
             /\ json.kind = "json"
             /\ pdf.kind = "pdf"
             /\ json.event = pdf.event)
            => /\ pdf.text.certificate_id = json.value["certificate"].certificate_id
               /\ pdf.text.qr_payload = json.value["certificate"].qr.verification_url

\* DWP-<8 digits>-<8 uppercase alphanumeric characters>
IdFormatOK(id) ==
    /\ Len(id) = 21
    /\ SubSeq(id, 1, 4) = DwpPrefix
    /\ \A i \in 5..12 : id[i] \in Digit
    /\ id[13] = "-"
    /\ \A i \in 14..21 : id[i] \in Digit \cup UpperLetter

\* C9: every certificate_id in an exported certificate document (JSON or
\* PDF, from generate_certificate, generate_json_certificate,
\* generate_pdf_certificate or the download handlers of CertificateScreen)
\* has the form DWP-<8 digits>-<8 uppercase alphanumeric characters>.
C9_IdFormat ==
    \A p \in JsonPaths \cup PdfPaths :
        /\ files[p].kind = "json" =>
               IdFormatOK(files[p].value["certificate"].certificate_id)
        /\ files[p].kind = "pdf" => IdFormatOK(files[p].text.certificate_id)

\* C10: after a successful generate_certificate the returned certificate_id,
\* the certificate_id in the JSON document, the id in the PDF and the id at
\* the end of the URL in the QR image are equal, qr.verification_url is
\* https://verify.datawipe.pro/<certificate_id>, and short_code is a
\* substring of the id.
C10_OneId ==
    (/\ op.name = "generate_certificate"
     /\ op.result.status = "success")
    => LET id  == op.result.certificate_id
           doc == files["out.json"].value["certificate"]
           pdf == files["out.pdf"].text
           qr  == files["out_qr.png"].payload
       IN  /\ doc.certificate_id = id
           /\ pdf.certificate_id = id
           /\ pdf.caption_id = id
           /\ EndsWith(qr, id)
           /\ qr = VerifyUrlPrefix \o id
           /\ pdf.qr_payload = qr
           /\ doc.qr.verification_url = VerifyUrlPrefix \o id
           /\ op.result.verification_url = doc.qr.verification_url
           /\ doc.qr.short_code # <<>>
           /\ IsSubstring(doc.qr.short_code, id)

\* generate_certificate has returned success and left its three files
C10_Witness ==
    /\ op.name = "generate_certificate"
    /\ op.result.status = "success"
    /\ files["out.json"].kind = "json"
    /\ files["out.pdf"].kind = "pdf"
    /\ files["out_qr.png"].kind = "png"
    /\ IdFormatOK(op.result.certificate_id)

-----------------------------------------------------------------------------
(* Properties of the certificate document (Spec) *)

\* the blocks of the document and the keys of each (lines 100-165)
DocBlocks ==
    [problem_statement |-> {"id", "title", "organization", "department", "theme"},
     device            |-> {"path", "model", "serial", "capacity", "interface",
                            "type", "manufacturer", "firmware", "smart_health",
                            "partition_table"},
     wipe_details      |-> {"method", "standard", "passes", "include_hpa",
                            "verification", "verify_method"},
     execution         |-> {"start_time", "completion_time", "duration", "operator",
                            "operator_id", "workstation_id", "status"},
     verification      |-> {"passed", "method", "confidence", "recovery_attempts",
                            "log_sha256"},
     compliance        |-> {"standards", "government_approved", "quantum_resistant"},
     eco_impact        |-> {"co2_saved", "trees_equivalent", "carbon_offset"},
     facility          |-> {"organization", "site", "location"},
     qr                |-> {"verification_url", "short_code"}]

\* the top-level keys that hold a value, not a block
DocScalars == {"certificate_id", "version", "generated_at"}

HasFixedShape(doc) ==
    /\ DOMAIN doc = DocScalars \cup DOMAIN DocBlocks
    /\ \A b \in DOMAIN DocBlocks : DOMAIN doc[b] = DocBlocks[b]

\* the documents of the JSON files on disk
ExportedDocs ==
    {files[p].value["certificate"] : p \in {q \in JsonPaths : files[q].kind = "json"}}

\* C11: for every wipe_data input, the empty record and records without a
\* 'device' entry included, the document _prepare_certificate_data returns
\* has the same top-level keys and the same keys in every block: no field is
\* ever omitted.
C11_FixedShape == \A doc \in ExportedDocs : HasFixedShape(doc)

\* generate_certificate has exported the document of the empty record
C11_Witness ==
    /\ op.name = "generate_certificate"
    /\ op.wipe_data = EmptyDict
    /\ files["out.json"].kind = "json"
    /\ HasFixedShape(files["out.json"].value["certificate"])
    /\ files["out.json"].value["certificate"].device.serial = "Unknown"

\* C12: every upstream field that is absent from wipe_data (device fields,
\* method, operator, status, duration and so on) appears in the document as
\* the literal "Unknown", or as 0 when it is numeric (the pass count of an
\* absent method); no absent field is filled with another value.
C12_DefaultsUnknown ==
    (/\ op.name = "generate_certificate"
     /\ files["out.json"].kind = "json")
    => LET w      == op.wipe_data
           device == Get(w, "device", EmptyDict)
           doc    == files["out.json"].value["certificate"]
           Absent(d, k, v) == k \notin DOMAIN d => v = "Unknown"
       IN  /\ Absent(device, "device_path", doc.device.path)
           /\ Absent(device, "serial", doc.device.serial)
           /\ Absent(device, "interface", doc.device.interface)
           /\ Absent(device, "type", doc.device.type)
           /\ Absent(device, "manufacturer", doc.device.manufacturer)
           /\ Absent(device, "size", doc.device.capacity)
           /\ Absent(device, "smart_health", doc.device.smart_health)
           /\ Absent(device, "partition_table", doc.device.partition_table)
           /\ "method" \notin DOMAIN w =>
                  /\ doc.wipe_details.method = MethodUnknown
                  /\ doc.wipe_details.passes = 0
           /\ Absent(w, "operator_name", doc.execution.operator)
           /\ Absent(w, "operator_id", doc.execution.operator_id)
           /\ Absent(w, "status", doc.execution.status)
           /\ Absent(w, "total_duration", doc.execution.duration)
           /\ Absent(w, "site", doc.facility.site)
           /\ Absent(w, "location", doc.facility.location)

-----------------------------------------------------------------------------
(* Properties of capacity formatting (SpecFormat) *)

\* the unit ladder of the claim
UnitLadder == <<"B", "KB", "MB", "GB", "TB", "PB">>

\* position of the most significant non-zero limb of a positive byte count
TopLimb(l) == CHOOSE i \in 1..Len(l) : l[i] # 0 /\ \A j \in (i + 1)..Len(l) : l[j] = 0

\* 1024 * 1024
Mebi == 1048576

\* text is the number whole + d/10 written with one decimal place, then unit
IsOneDecimalText(text, whole, d, unit) ==
    text = ToString(whole + d \div 10) \o "." \o ToString(d % 10) \o " " \o unit

\* C13: _format_size(0) is "Unknown"; for a positive byte count the result is
\* the count divided by 1024 as often as needed to fall below 1024 (at most
\* five times), written with one decimal place and the unit of the ladder
\* B, KB, MB, GB, TB, PB that many steps up: the written number is the tenth
\* nearest to the scaled value; 500 * 1024^3 gives "500.0 GB".
C13_FormatSize ==
    op.name = "_format_size" =>
        LET l == op.size_bytes
            r == op.result
        IN  /\ SizeIsZero(l) => r = "Unknown"
            /\ l = FiveHundredGiB => r = "500.0 GB"
            /\ ~SizeIsZero(l) =>
                  LET k     == IF TopLimb(l) > 6 THEN 5 ELSE TopLimb(l) - 1
                      whole == Limb(l, k + 1) + 1024 * Limb(l, k + 2)
                      \* the fraction of the scaled value, in 1/Mebi, cut
                      \* below; the part cut off is less than 1/Mebi
                      frac  == 1024 * Limb(l, k) + Limb(l, k - 1)
                  IN  \E d \in 0..10 :
                          /\ IsOneDecimalText(r, whole, d, UnitLadder[k + 1])
                          /\ 2 * (d * Mebi - 10 * frac) <= Mebi
                          /\ 2 * (10 * frac - d * Mebi) <= Mebi + 20

\* 500 * 1024^3 bytes have been formatted
C13_Witness ==
    /\ op.name = "_format_size"
    /\ op.size_bytes = FiveHundredGiB
    /\ op.result = "500.0 GB"

-----------------------------------------------------------------------------
(* Properties of the rendered PDF (Spec) *)

\* the line of the PDF that presents the verification as passed (line 315)
PassedBanner == "VERIFICATION: PASSED | SIGNED & BLOCKCHAIN-LOGGED"

\* C14: a PDF rendered for a document whose execution status is not
\* 'completed', or whose verification.passed is false, does not present the
\* verification as PASSED.
C14_NoPassedUnlessVerified ==
    (/\ op.name = "generate_certificate"
     /\ files["out.pdf"].kind = "pdf"
     /\ files["out.json"].kind = "json")
    => LET doc == files["out.json"].value["certificate"]
           pdf == files["out.pdf"].text
       IN  (\/ doc.execution.status # "completed"
            \/ ~doc.verification.passed)
           => pdf.banner # PassedBanner

-----------------------------------------------------------------------------
(* Properties of the key material (Spec) *)

UnsignedKeys == {"certificate", "signature", "signed_at"}
SignedKeys == UnsignedKeys \cup {"public_key", "algorithm"}

\* C15: after construction a generator holds both private_key and jwk_key
\* or neither; an envelope written by a generator without keys is an
\* unsigned-mode envelope (sentinel signature, no token, no public key), and
\* one written by a generator with keys carries the token, the public key
\* and the algorithm together.
C15_NoHalfSigned ==
    /\ \A g \in Gens : (private_key[g] = "None") <=> (jwk_key[g] = "None")
    /\ \A p \in JsonPaths :
           files[p].kind = "json" =>
               LET e   == files[p].value
                   key == jwk_key[files[p].gen]
               IN  IF key = "None"
                   THEN /\ DOMAIN e = UnsignedKeys
                        /\ e["signature"] = SigText(DemoSentinel)
                   ELSE /\ DOMAIN e = SignedKeys
                        /\ e["signature"].form = "jws"
                        /\ e["signature"].signature.signer = key
                        /\ e["public_key"] = ExportPublic(key)

\* a generator whose key generation failed has exported an envelope
C15_Witness ==
    \E p \in JsonPaths :
        /\ files[p].kind = "json"
        /\ jwk_key[files[p].gen] = "None"
        /\ private_key[files[p].gen] = "None"
        /\ files[p].value["signature"] = SigText(DemoSentinel)

\* C16: one keypair per process: the generators constructed in one run (the
\* one of MainScreen and the one of CertificateScreen) hold one signing key,
\* so every signed envelope of the run carries the signature of the key that
\* every generator of the run holds.
C16_OneKeypair ==
    \A p \in JsonPaths :
        (/\ files[p].kind = "json"
         /\ files[p].value["signature"].form = "jws")
        => \A g \in Gens :
               jwk_key[g] # "None" =>
                   files[p].value["signature"].signature.signer = jwk_key[g]

-----------------------------------------------------------------------------
(* Properties of generate_certificate's error handling (Spec) *)

Written(p) == files[p].kind # "none"

\* C17: if writing the PDF, the JSON or the QR image fails during
\* generate_certificate, the call returns status 'error' with the cause of
\* the first write that failed; it returns status 'success' only when all
\* three files were written.
C17_FailuresSurfaced ==
    op.name = "generate_certificate" =>
        IF Written("out.pdf") /\ Written("out.json") /\ Written("out_qr.png")
        THEN op.result.status = "success"
        ELSE /\ op.result.status = "error"
             /\ DOMAIN op.result = {"status", "error"}
             /\ op.result.error =
                    IF ~Written("out.pdf") THEN "pdf"
                    ELSE IF ~Written("out.json") THEN "json"
                    ELSE "qr"

\* the JSON export failed after the PDF was written, and the call said so
C17_Witness ==
    /\ op.name = "generate_certificate"
    /\ Written("out.pdf")
    /\ ~Written("out.json")
    /\ op.result = [status |-> "error", error |-> "json"]

-----------------------------------------------------------------------------
(* Properties of the command line (Spec) *)

\* C18: --verify FILE ends with exit status 0 when verify_certificate
\* reports the certificate valid and with exit status 1 when it reports it
\* invalid, and prints a message in both cases.
C18_ExitStatus ==
    op.name = "cli_verify" =>
        /\ op.printed # ""
        /\ op.exit_status = IF op.valid THEN 0 ELSE 1

-----------------------------------------------------------------------------
(* Properties of the pass count (Spec) *)

\* the document exported at path p was built from wipe record w
BuiltFrom(p, w) ==
    /\ files[p].kind = "json"
    /\ \/ p = "out.json" /\ op.name = "generate_certificate" /\ op.wipe_data = w
       \/ p = "main.json" /\ main_wipe_data = w
       \/ p = "cert.json" /\ cert_wipe_data = w

\* C19: the pass count in the certificate's wipe_details equals the pass
\* count of the wipe result the certificate was built from (3 for
\* WipeThread's result), and it is at least 1.
C19_PassCount ==
    \A p \in JsonPaths, w \in WipeDatas :
        BuiltFrom(p, w) =>
            LET passes == files[p].value["certificate"].wipe_details.passes
            IN  /\ passes >= 1
                /\ "passes" \in DOMAIN w => passes = w["passes"]

-----------------------------------------------------------------------------
(* Properties of the wipe flow (SpecWipe) *)

\* the threads whose wipe has started and whose wipe_completed signal has
\* not been handled yet
WipesInProgress ==
    {i \in 1..Len(threads) : threads[i].state \in {"running", "emitted"}}

\* C20: from start_wipe until the wipe_completed signal of that wipe is
\* handled, selected_device stays the device the thread was started on
\* (the drive_timer is stopped and device_combo is disabled, so neither a
\* refresh nor the user changes it) and wipe_button is disabled, so
\* start_wipe cannot run again: at most one WipeThread is running at any
\* time.
C20_OneWipeAtATime ==
    /\ Cardinality(WipesInProgress) <= 1
    /\ \A i \in WipesInProgress :
           /\ ui.wipe_thread = i
           /\ ui.selected_device = threads[i].device_info
           /\ ui.drive_timer = "stopped"
           /\ ~ui.device_combo_enabled
           /\ ~ui.wipe_button_enabled

\* a wipe of the second of two listed drives is running
C20_Witness ==
    /\ Len(ui.drives) = 2
    /\ WipesInProgress = {1}
    /\ threads[1].state = "running"
    /\ threads[1].device_info = ui.drives[2]
-----------------------------------------------------------------------------
(* C21: update_drive_list keeps the selection by stable key *)

\* the steps that run MainScreen.update_drive_list
UpdateDriveListStep == DoStartDriveDetection \/ DoRefreshDrives

\* the positions of drives whose stable key is that of device
SameKey(drives, device) ==
    {i \in 1..Len(drives) : DriveKey(drives[i]) = DriveKey(device)}

\* C21: when update_drive_list runs with a device selected and the new list
\* holds a drive with the same key (device_path, else serial), then
\* afterwards selected_device is such a drive of the new list, the combo box
\* points at it and the wipe button is enabled; when the new list holds no
\* such drive the wipe button is disabled, and selected_device is either
\* left as it was or, only if no wipe thread exists, cleared.
C21_SelectionPreserved ==
    [][(UpdateDriveListStep /\ HasSelection(ui)) =>
          IF SameKey(ui'.drives, ui.selected_device) # {}
          THEN /\ ui'.combo_index \in SameKey(ui'.drives, ui.selected_device)
               /\ ui'.selected_device = ui'.drives[ui'.combo_index]
               /\ ui'.wipe_button_enabled
          ELSE /\ ~ui'.wipe_button_enabled
               /\ \/ ui'.selected_device = ui.selected_device
                  \/ IsNone(ui'.selected_device) /\ ui.wipe_thread = 0]_vars

\* a refresh has found the selected drive at the second place of the new list
C21_Witness ==
    /\ op.name = "refresh_drives"
    /\ ui.drives = <<DriveB, Drive>>
    /\ ui.combo_index = 2
    /\ ui.selected_device = Drive
    /\ ui.wipe_button_enabled
-----------------------------------------------------------------------------
(* C22: reset_for_new_wipe makes MainScreen ready for a new wipe *)

\* C22: after CertificateScreen.go_back has called reset_for_new_wipe,
\* selected_device, wipe_thread and wipe_data are None and the device
\* selection controls (device_combo and wipe_button, both inside wipe_card)
\* are visible and enabled, so that a device can be selected, which enables
\* the wipe button.
C22_ResetAllowsNewWipe ==
    op.name = "go_back" =>
        /\ IsNone(ui.selected_device)
        /\ ui.wipe_thread = 0
        /\ IsNone(main_wipe_data)
        /\ ui.device_combo_enabled
        /\ ui.wipe_card_visible
-----------------------------------------------------------------------------
(* Properties of DataWipeProGUI (SpecGui, SpecGuiLive) *)

\* the refresh workers that have not finished refresh_worker
RunningRefreshWorkers ==
    {i \in ThreadsOfKind("refresh") : tk_threads[i].pc # "done"}

\* C23: at most one device-refresh worker runs at a time, a refresh request
\* made while is_refreshing is true starts no worker and changes nothing,
\* and every started refresh, whether detection succeeds or raises, is
\* eventually followed by is_refreshing being False with the refresh button
\* enabled again.
C23_OneRefreshAtATime ==
    /\ [](Cardinality(RunningRefreshWorkers) <= 1)
    /\ [][(ClickRefresh /\ gui.is_refreshing) =>
              UNCHANGED <<gui, tk_threads, tk_after>>]_vars
    /\ (gui.is_refreshing ~>
            (~gui.is_refreshing /\ gui.refresh_btn = "normal"))

\* a click on the refresh button was ignored: the button is enabled (reset_ui
\* enabled it after a wipe) while the worker of an earlier request still runs
C23_Witness ==
    /\ op.name = "refresh_devices_threaded"
    /\ gui.is_refreshing
    /\ gui.refresh_btn = "normal"
    /\ Cardinality(RunningRefreshWorkers) = 1

\* the callbacks perform_wipe schedules
WipeCallbacks ==
    {"update_progress", "show_completion_state", "show_error_dialog", "reset_ui"}

\* every wipe started has ended, the last one with a certificate, and all
\* the callbacks perform_wipe scheduled have run
SuccessfulWipeSettled ==
    /\ ThreadsOfKind("wipe") # {}
    /\ \A i \in ThreadsOfKind("wipe") : tk_threads[i].pc = "done"
    /\ LET last == CHOOSE i \in ThreadsOfKind("wipe") :
                       \A j \in ThreadsOfKind("wipe") : j <= i
       IN  tk_threads[last].success
    /\ \A k \in 1..Len(tk_after) : tk_after[k].fn \notin WipeCallbacks

\* C24: after a successful wipe, once all callbacks scheduled by
\* perform_wipe have run, the progress card is hidden and the certificate
\* card is displayed, showing the device name and the certificate id.
C24_CertificateCardShown ==
    SuccessfulWipeSettled =>
        /\ ~gui.progress_card
        /\ gui.certificate_card
        /\ Len(gui.cert_device_label) = 3
        /\ gui.cert_device_label[3] = GuiCertificateId
-----------------------------------------------------------------------------
(* Properties of SystemInfoDetector (SpecSystemInfo) *)

\* the age, at the call that ran last, of the record it returned
ReturnedAge == clock.now - op.returned.timestamp

\* C25: get_system_info returns the cached record without detecting again
\* only when force_refresh is false and the cache was filled less than 30
\* seconds ago, so a record older than 30 seconds is never returned; with
\* force_refresh=True it always detects again and replaces the cache.
C25_CacheThirtySeconds ==
    op.name = "get_system_info" =>
        /\ ~op.detected => ~op.force_refresh /\ ReturnedAge < CacheSeconds
        /\ ReturnedAge <= CacheSeconds
        /\ op.force_refresh =>
               /\ op.detected
               /\ system_info.cached_info = op.returned
               /\ ReturnedAge = 0

\* the perform_wipe threads that have called generate_certificate
Certifying ==
    {i \in ThreadsOfKind("wipe") :
        /\ "cert_device" \in DOMAIN tk_threads[i]
        /\ tk_threads[i].cert_device # NotYet}

\* C26: while is_wiping is true the selected device is neither cleared nor
\* replaced (no refresh starts or completes, no dropdown selection changes),
\* so the device perform_wipe passes to the certificate generator is the
\* device it passed to wipe_device.
C26_DeviceFixedWhileWiping ==
    /\ [][(gui.is_wiping /\ gui'.is_wiping) =>
              gui'.selected_device = gui.selected_device]_vars
    /\ [](\A i \in Certifying :
              tk_threads[i].cert_device = tk_threads[i].wiped_device)
-----------------------------------------------------------------------------
(* Properties of WipeThread.run (SpecRun) *)

\* s is a beginning of t
IsPrefix(s, t) == Len(s) <= Len(t) /\ \A k \in 1..Len(s) : s[k] = t[k]

\* C27: within one run the values of progress_updated are emitted in the
\* order 0, 1, 2, 98, 99, 100 (so never decreasing), wipe_completed is
\* emitted at most once and only after progress 100 has been emitted, and a
\* run in which a check has read is_running as False emits no
\* wipe_completed.
C27_RunEmitsInOrder ==
    /\ IsPrefix(wipe_run.progress, EarlyPcts \o FinalPcts)
    /\ wipe_run.completed <= 1
    /\ wipe_run.completed = 1 =>
           wipe_run.progress = EarlyPcts \o FinalPcts
    /\ wipe_run.observed => wipe_run.completed = 0

\* stop() came during the last early window: the while loop read is_running
\* as False, 2 was still emitted, and the next check returned
C27_Witness ==
    /\ wipe_run.observed
    /\ wipe_run.stage = "returned"
    /\ wipe_run.progress = EarlyPcts
    /\ wipe_run.completed = 0
-----------------------------------------------------------------------------
(* Properties of WipeProgressScreen (SpecProgress) *)

\* C28: once the user has confirmed 'Cancel Wipe' the progress timer is
\* stopped and parent.wipe_completed is not called any more, at whatever
\* point of the run the cancellation happens.
C28_CancelledNeverDelivered ==
    /\ [](progress_screen.cancelled =>
              progress_screen.progress_timer = "stopped")
    /\ [][progress_screen.cancelled =>
              progress_screen'.delivered = progress_screen.delivered]_vars

=============================================================================
